---- MODULE Spec2Model ----
(***************************************************************************)
(* Who-Is-Spy: the orchestration core.                                     *)
(*                                                                         *)
(*   core/models.py           GameSession, PlayerSession, RoundRecord      *)
(*   core/session_manager.py  GameSessionManager                           *)
(*   core/game_engine.py      GameEngine                                   *)
(*   players/llm_player.py    LLMPlayer (the agent the engine calls)       *)
(*   main.py, server.py       the two entry points                         *)
(*                                                                         *)
(* Two specifications share the session state and the Session Manager      *)
(* operators:                                                              *)
(*   Spec    an entry point creates and initializes a session and          *)
(*           GameEngine.run_game drives it, one await at a time;           *)
(*   SpecSM  the public operations of GameSessionManager called in any     *)
(*           order with any arguments.                                     *)
(* FairSpec is Spec with the fairness of a running event loop.             *)
(*                                                                         *)
(* Python dicts keep insertion order, so a dict is a sequence of           *)
(* <<key, value>> pairs; None is the string "none".                        *)
(***************************************************************************)
EXTENDS Integers, Sequences, FiniteSets, TLC

VARIABLES
    session,    \* GameSessionManager._session (sid = 0: None)
    ret,        \* the outcome of the last call: operation, error raised, value
    engine,     \* GameEngine.run_game: position and local variables
    calls       \* SpecSM: the number of calls made so far

vars == <<session, ret, engine, calls>>

----------------------------------------------------------------------------
(* Bounds and the configuration the model explores *)

\* the player_configs an entry point builds: one player per configured provider
Roster == <<"A", "B", "C", "D">>

\* a name that is no player's
Unknown == "Z"

\* agent replies that differ from the scripted default, per game
MaxDeviations == 1

\* SpecSM: calls per behaviour, and sessions created
MaxCalls == 5

MaxSessions == 2

RosterNames == {Roster[i] : i \in DOMAIN Roster}

AnyName == RosterNames \cup {Unknown}

\* spy_count as configured: GAME_SPY_COUNT / --spies are unchecked integers
SpyCounts == (0 - 1) .. (Len(Roster) + 1)

----------------------------------------------------------------------------
(* Python dict and list helpers *)

DictKeys(d) == {d[i][1] : i \in DOMAIN d}

DictHas(d, k) == \E i \in DOMAIN d : d[i][1] = k

DictGet(d, k) == d[CHOOSE i \in DOMAIN d : d[i][1] = k][2]

\* d.get(k, default)
DictGetOr(d, k, default) == IF DictHas(d, k) THEN DictGet(d, k) ELSE default

\* F(e), with e evaluated once and bound as a value
Let(e, F(_)) == CHOOSE y \in {F(x) : x \in {e}} : TRUE

\* d[k] = v : an existing key keeps its position
DictPut(d, k, v) ==
    IF DictHas(d, k)
    THEN [i \in DOMAIN d |-> IF d[i][1] = k THEN <<k, v>> ELSE d[i]]
    ELSE Append(d, <<k, v>>)

\* list(d.values())
DictValues(d) == [i \in DOMAIN d |-> d[i][2]]

\* [x for x in s if x in keep]
RECURSIVE Filter(_, _)
Filter(s, keep) ==
    IF s = <<>> THEN <<>>
    ELSE IF Head(s) \in keep THEN <<Head(s)>> \o Filter(Tail(s), keep)
    ELSE Filter(Tail(s), keep)

SeqSet(s) == {s[i] : i \in DOMAIN s}

\* max(values) of a non-empty sequence of integers
MaxOf(vals) == CHOOSE m \in SeqSet(vals) : \A x \in SeqSet(vals) : x <= m

----------------------------------------------------------------------------
(* core/models.py *)

Phases == {"waiting", "init", "description", "voting", "elimination", "finished"}

\* PlayerSession(name=...): role and word None, alive, an empty conversation.
\* conversation is the ConversationContext's messages, by role.
PlayerSession ==
    [role |-> "none", word |-> "none", is_alive |-> TRUE,
     descriptions |-> <<>>, votes |-> <<>>, conversation |-> <<>>]

RoundRecord(n) ==
    [round_number |-> n, descriptions |-> <<>>,
     human_votes |-> <<>>, human_vote_counts |-> <<>>,
     votes |-> <<>>, vote_counts |-> <<>>,
     eliminated |-> "none", eliminated_role |-> "none"]

\* GameSession(total_players, spy_count) after the players were added;
\* player_names is the key order of the players dict
GameSession(sid, names, spy_count) ==
    [sid |-> sid, total_players |-> Len(names), spy_count |-> spy_count,
     civilian_word |-> "", spy_word |-> "",
     player_names |-> names,
     players |-> [n \in SeqSet(names) |-> PlayerSession],
     phase |-> "waiting", current_round |-> 0,
     speaking_order |-> <<>>, round_history |-> <<>>, winner |-> "none",
     started_at |-> "none"]

\* GameSessionManager(): no session
NoSession == GameSession(0, <<>>, 1)

get_alive_player_names(s) ==
    Filter(s.player_names, {n \in DOMAIN s.players : s.players[n].is_alive})

get_spies(s) ==
    {n \in DOMAIN s.players : s.players[n].role = "spy" /\ s.players[n].is_alive}

get_civilians(s) ==
    {n \in DOMAIN s.players : s.players[n].role = "civilian" /\ s.players[n].is_alive}

\* ConversationContext.add_message as the game uses it: the roles of the
\* messages in order (contents, the token estimate and compression are
\* context_add_message below)
add_message(conv, role) == Append(conv, role)

----------------------------------------------------------------------------
(* core/session_manager.py: each operation maps the session to the session  *)
(* it leaves behind, the exception it raises ("none": it returns) and its   *)
(* return value                                                            *)

Result(s, err, val) == [s |-> s, err |-> err, val |-> val]

\* create_session: the players in roster order, then the shuffled order
create_session(sid, names, spy_count, order) ==
    [GameSession(sid, names, spy_count) EXCEPT !.speaking_order = order]

\* faulty variant: a finished session may start another round
valid_transitions_restart(current) ==
    CASE current = "waiting" -> {"init"}
      [] current = "init" -> {"description"}
      [] current = "description" -> {"voting"}
      [] current = "voting" -> {"elimination"}
      [] current = "elimination" -> {"description", "finished"}
      [] current = "finished" -> {"description"}
      [] OTHER -> {}

\* faulty variant: no way back from elimination to description
valid_transitions_once(current) ==
    CASE current = "waiting" -> {"init"}
      [] current = "init" -> {"description"}
      [] current = "description" -> {"voting"}
      [] current = "voting" -> {"elimination"}
      [] current = "elimination" -> {"finished"}
      [] OTHER -> {}

valid_transitions(current) ==
    CASE current = "waiting" -> {"init"}
      [] current = "init" -> {"description"}
      [] current = "description" -> {"voting"}
      [] current = "voting" -> {"elimination"}
      [] current = "elimination" -> {"description", "finished"}
      [] OTHER -> {}

transition_phase(s, new_phase) ==
    IF s.sid = 0 THEN Result(s, "RuntimeError", "none")
    ELSE IF new_phase \notin valid_transitions(s.phase)
    THEN Result(s, "ValueError", "none")
    ELSE Result([s EXCEPT !.phase = new_phase], "none", "none")

\* faulty variant: the winner is stored but the phase is left as it was
end_session_keeps_phase(s, winner) ==
    IF s.sid = 0 THEN Result(s, "RuntimeError", "none")
    ELSE Result([s EXCEPT !.winner = winner],
                IF s.started_at = "none" THEN "TypeError" ELSE "none", "none")

\* end_session: no check of the phase; the game's duration is logged after
\* the winner and the phase are set, and ended_at - started_at raises
\* TypeError when the session was never initialized
end_session(s, winner) ==
    IF s.sid = 0 THEN Result(s, "RuntimeError", "none")
    ELSE Result([s EXCEPT !.winner = winner, !.phase = "finished"],
                IF s.started_at = "none" THEN "TypeError" ELSE "none", "none")

\* the part of initialize_game before random.sample
initialize_words(s, civilian_word, spy_word) ==
    [s EXCEPT !.civilian_word = civilian_word, !.spy_word = spy_word,
              !.started_at = "set"]

\* faulty variant: initialization also resets the alive flags
assign_roles_revive(s, spy_names) ==
    [s EXCEPT !.players =
        [n \in DOMAIN s.players |->
            [s.players[n] EXCEPT
                !.role = IF n \in spy_names THEN "spy" ELSE "civilian",
                !.word = IF n \in spy_names THEN s.spy_word ELSE s.civilian_word,
                !.is_alive = TRUE,
                !.conversation = add_message(@, "system")]]]

\* faulty variant: every player is handed the civilian word
assign_roles_one_word(s, spy_names) ==
    [s EXCEPT !.players =
        [n \in DOMAIN s.players |->
            [s.players[n] EXCEPT
                !.role = IF n \in spy_names THEN "spy" ELSE "civilian",
                !.word = s.civilian_word,
                !.conversation = add_message(@, "system")]]]

\* the role loop of initialize_game with _init_player_context, for the
\* sampled spy_names
assign_roles(s, spy_names) ==
    [s EXCEPT !.players =
        [n \in DOMAIN s.players |->
            [s.players[n] EXCEPT
                !.role = IF n \in spy_names THEN "spy" ELSE "civilian",
                !.word = IF n \in spy_names THEN s.spy_word ELSE s.civilian_word,
                !.conversation = add_message(@, "system")]]]

\* random.sample(player_names, spy_count): the sets it can return; none
\* when it raises ValueError (negative, or larger than the population)
sample_spies(s) ==
    IF s.spy_count < 0 \/ s.spy_count > Len(s.player_names) THEN {}
    ELSE {S \in SUBSET DOMAIN s.players : Cardinality(S) = s.spy_count}

\* initialize_game for one outcome of random.sample; no check of the phase
initialize_game(s, civilian_word, spy_word, spy_names) ==
    IF s.sid = 0 THEN Result(s, "RuntimeError", "none")
    ELSE IF sample_spies(s) = {}
    THEN Result(initialize_words(s, civilian_word, spy_word), "ValueError", "none")
    ELSE Result([assign_roles(initialize_words(s, civilian_word, spy_word), spy_names)
                    EXCEPT !.phase = "init"], "none", "none")

\* start_new_round: the counter is incremented before the transition is tried
start_new_round(s) ==
    IF s.sid = 0 THEN Result(s, "RuntimeError", "none")
    ELSE LET s1 == [s EXCEPT !.current_round = @ + 1]
             t == transition_phase(s1, "description")
         IN IF t.err # "none" THEN Result(s1, t.err, "none")
            ELSE Result([t.s EXCEPT !.round_history =
                            Append(@, RoundRecord(s1.current_round))],
                        "none", s1.current_round)

\* faulty variant: the round record is not updated
eliminate_player_unrecorded(s, player_name) ==
    IF s.sid = 0 THEN Result(s, "RuntimeError", "none")
    ELSE IF player_name \notin DOMAIN s.players THEN Result(s, "ValueError", "none")
    ELSE Result([s EXCEPT !.players[player_name].is_alive = FALSE], "none", player_name)

\* faulty variant: the elimination is written to the first RoundRecord
eliminate_player_first_record(s, player_name) ==
    IF s.sid = 0 THEN Result(s, "RuntimeError", "none")
    ELSE IF player_name \notin DOMAIN s.players THEN Result(s, "ValueError", "none")
    ELSE LET s1 == [s EXCEPT !.players[player_name].is_alive = FALSE]
         IN Result(IF Len(s.round_history) > 0
                   THEN [s1 EXCEPT !.round_history[1].eliminated = player_name,
                                   !.round_history[1].eliminated_role =
                                       s.players[player_name].role]
                   ELSE s1,
                   "none", player_name)

\* faulty variant: the eliminated player is also taken out of the speaking
\* order
eliminate_player_reordering(s, player_name) ==
    IF s.sid = 0 THEN Result(s, "RuntimeError", "none")
    ELSE IF player_name \notin DOMAIN s.players THEN Result(s, "ValueError", "none")
    ELSE LET s1 == [s EXCEPT !.players[player_name].is_alive = FALSE,
                             !.speaking_order =
                                 Filter(@, DOMAIN s.players \ {player_name})]
             last == Len(s.round_history)
         IN Result(IF last > 0
                   THEN [s1 EXCEPT !.round_history[last].eliminated = player_name,
                                   !.round_history[last].eliminated_role =
                                       s.players[player_name].role]
                   ELSE s1,
                   "none", player_name)

eliminate_player(s, player_name) ==
    IF s.sid = 0 THEN Result(s, "RuntimeError", "none")
    ELSE IF player_name \notin DOMAIN s.players THEN Result(s, "ValueError", "none")
    ELSE LET s1 == [s EXCEPT !.players[player_name].is_alive = FALSE]
             last == Len(s.round_history)
         IN Result(IF last > 0
                   THEN [s1 EXCEPT !.round_history[last].eliminated = player_name,
                                   !.round_history[last].eliminated_role =
                                       s.players[player_name].role]
                   ELSE s1,
                   "none", player_name)

\* faulty variant: the speaking order with its eliminated players
get_alive_speaking_order_all(s) ==
    IF s.sid = 0 THEN <<>> ELSE s.speaking_order

get_alive_speaking_order(s) ==
    IF s.sid = 0 THEN <<>>
    ELSE Filter(s.speaking_order, SeqSet(get_alive_player_names(s)))

\* record_description: the round record is written before the player is looked up
record_description(s, player_name, description) ==
    IF s.sid = 0 \/ s.round_history = <<>> THEN Result(s, "RuntimeError", "none")
    ELSE LET last == Len(s.round_history)
             s1 == [s EXCEPT !.round_history[last].descriptions =
                                DictPut(@, player_name, description)]
         IN IF player_name \notin DOMAIN s.players THEN Result(s1, "KeyError", "none")
            ELSE Result([s1 EXCEPT !.players[player_name].descriptions =
                                      Append(@, description)], "none", "none")

record_vote(s, voter, target) ==
    IF s.sid = 0 \/ s.round_history = <<>> THEN Result(s, "RuntimeError", "none")
    ELSE LET last == Len(s.round_history)
             s1 == [s EXCEPT !.round_history[last].votes = DictPut(@, voter, target)]
         IN IF voter \notin DOMAIN s.players THEN Result(s1, "KeyError", "none")
            ELSE Result([s1 EXCEPT !.players[voter].votes = Append(@, target)],
                        "none", "none")

\* for target in votes.values(): vote_counts[target] = vote_counts.get(target, 0) + 1
RECURSIVE count_votes(_, _)
count_votes(targets, vote_counts) ==
    IF targets = <<>> THEN vote_counts
    ELSE Let(DictPut(vote_counts, Head(targets),
                     DictGetOr(vote_counts, Head(targets), 0) + 1),
             LAMBDA counted : count_votes(Tail(targets), counted))

\* [name for name, count in vote_counts.items() if count == max_votes]
top_of(vote_counts) ==
    IF vote_counts = <<>> THEN <<>>
    ELSE LET max_votes == MaxOf(DictValues(vote_counts))
             RECURSIVE pick(_)
             pick(d) == IF d = <<>> THEN <<>>
                        ELSE IF Head(d)[2] = max_votes
                        THEN <<Head(d)[1]>> \o pick(Tail(d))
                        ELSE pick(Tail(d))
         IN pick(vote_counts)

\* tally_votes: the counts are saved, then max() raises on an empty tally;
\* val is the list random.choice draws the returned name from
tally_votes(s) ==
    IF s.sid = 0 \/ s.round_history = <<>> THEN Result(s, "RuntimeError", <<>>)
    ELSE LET last == Len(s.round_history)
         IN Let(count_votes(DictValues(s.round_history[last].votes), <<>>),
                LAMBDA vote_counts :
                    LET s1 == [s EXCEPT !.round_history[last].vote_counts = vote_counts]
                    IN IF vote_counts = <<>> THEN Result(s1, "ValueError", <<>>)
                       ELSE Result(s1, "none", top_of(vote_counts)))

\* record_human_vote: no player is looked up
record_human_vote(s, voter, target) ==
    IF s.sid = 0 \/ s.round_history = <<>> THEN Result(s, "RuntimeError", "none")
    ELSE LET last == Len(s.round_history)
         IN Result([s EXCEPT !.round_history[last].human_votes =
                                DictPut(@, voter, target)], "none", "none")

\* faulty variant: the first player named in the advisory ledger is eliminated
tally_human_votes_eliminating(s) ==
    IF s.sid = 0 \/ s.round_history = <<>> THEN Result(s, "RuntimeError", <<>>)
    ELSE LET last == Len(s.round_history)
             vote_counts ==
                 count_votes(DictValues(s.round_history[last].human_votes), <<>>)
         IN Result([s EXCEPT !.round_history[last].human_vote_counts = vote_counts,
                             !.players = IF vote_counts = <<>> THEN @
                                         ELSE [@ EXCEPT ![vote_counts[1][1]].is_alive = FALSE]],
                   "none", vote_counts)

tally_human_votes(s) ==
    IF s.sid = 0 \/ s.round_history = <<>> THEN Result(s, "RuntimeError", <<>>)
    ELSE LET last == Len(s.round_history)
             vote_counts ==
                 count_votes(DictValues(s.round_history[last].human_votes), <<>>)
         IN Result([s EXCEPT !.round_history[last].human_vote_counts = vote_counts],
                   "none", vote_counts)

\* a line of the history text: a round header (number), a statement (name,
\* text) or an elimination (name, role as text)
Line(kind, number, name, text) ==
    [kind |-> kind, number |-> number, name |-> name, text |-> text]

\* the lines "name: statement" of a round record, in speaking order
description_lines(s, record) ==
    LET RECURSIVE lines(_)
        lines(names) ==
            IF names = <<>> THEN <<>>
            ELSE (IF DictHas(record.descriptions, Head(names))
                  THEN <<Line("statement", 0, Head(names),
                              DictGet(record.descriptions, Head(names)))>>
                  ELSE <<>>) \o lines(Tail(names))
    IN lines(s.speaking_order)

\* format_round_history: the rounds before the current one, each with its
\* header, its statements and its elimination line
format_round_history(s) ==
    IF s.sid = 0 \/ s.round_history = <<>> THEN <<>>
    ELSE LET RECURSIVE rounds(_)
             rounds(k) ==
                 IF k >= Len(s.round_history) THEN <<>>
                 ELSE <<Line("round", s.round_history[k].round_number, "none", "none")>>
                      \o description_lines(s, s.round_history[k])
                      \o (IF s.round_history[k].eliminated # "none"
                          THEN <<Line("eliminated", 0, s.round_history[k].eliminated,
                                      IF s.round_history[k].eliminated_role = "spy"
                                      THEN "spy" ELSE "civilian")>>
                          ELSE <<>>)
                      \o rounds(k + 1)
         IN rounds(1)

\* format_current_round_descriptions
format_current_round_descriptions(s) ==
    IF s.sid = 0 \/ s.round_history = <<>> THEN <<>>
    ELSE description_lines(s, s.round_history[Len(s.round_history)])

\* run_description_round 141-144: the section of the round in progress, added
\* when it has statements
current_round_section(s) ==
    LET current_descs == format_current_round_descriptions(s)
    IN IF current_descs = <<>> THEN <<>>
       ELSE <<Line("in progress", s.current_round, "none", "none")>> \o current_descs

add_to_player_context(s, player_name, role) ==
    IF s.sid = 0 THEN Result(s, "RuntimeError", "none")
    ELSE IF player_name \notin DOMAIN s.players THEN Result(s, "ValueError", "none")
    ELSE Result([s EXCEPT !.players[player_name].conversation = add_message(@, role)],
                "none", "none")

\* faulty variant: the spies win only when they outnumber the civilians
check_win_condition_strict(s) ==
    IF s.sid = 0 THEN "none"
    ELSE LET alive_spies == Cardinality(get_spies(s))
             alive_civilians == Cardinality(get_civilians(s))
         IN IF alive_spies = 0 THEN "civilian"
            ELSE IF alive_spies > alive_civilians THEN "spy"
            ELSE "none"

\* faulty variant: the spies win only when no civilian is left
check_win_condition_last_civilian(s) ==
    IF s.sid = 0 THEN "none"
    ELSE LET alive_spies == Cardinality(get_spies(s))
             alive_civilians == Cardinality(get_civilians(s))
         IN IF alive_spies = 0 THEN "civilian"
            ELSE IF alive_civilians = 0 THEN "spy"
            ELSE "none"

\* check_win_condition: the winner, or "none"
check_win_condition(s) ==
    IF s.sid = 0 THEN "none"
    ELSE LET alive_spies == Cardinality(get_spies(s))
             alive_civilians == Cardinality(get_civilians(s))
         IN IF alive_spies = 0 THEN "civilian"
            ELSE IF alive_spies >= alive_civilians THEN "spy"
            ELSE "none"

----------------------------------------------------------------------------
(* players/llm_player.py: what a call of the agent can give back.  A call   *)
(* appends the prompt to the player's conversation, then the client either *)
(* fails (the call raises) or answers (describe, vote, vote_human, debate, *)
(* vote_after_debate append the answer; leave_message does not).           *)

Raise == "raise"

\* describe / debate / leave_message: a text, or the call raises
TextReplies == {"text", Raise}

\* vote / vote_human / vote_after_debate: _parse_vote returns an offered
\* candidate, or the raw reply: any other name or text
VoteReplies == AnyName \cup {Raise}

\* the reply of the scripted agent: a text, the first candidate offered
DefaultVote(offered) == IF offered = <<>> THEN Unknown ELSE offered[1]

agent_call(s, player_name, reply, appends_answer) ==
    [s EXCEPT !.players[player_name].conversation =
        IF reply # Raise /\ appends_answer
        THEN add_message(add_message(@, "user"), "assistant")
        ELSE add_message(@, "user")]

\* [c for c in candidates if c != player_name]
others(candidates, player_name) == Filter(candidates, SeqSet(candidates) \ {player_name})

----------------------------------------------------------------------------
(* core/game_engine.py, with main.py / server.py in front of it *)

FallbackStatement == "fallback"

CivilianWord == "cw"

SpyWord == "sw"

\* the random.shuffle outcomes explored
SpeakingOrders == {<<"A", "B", "C", "D">>, <<"C", "A", "D", "B">>}

EngineIdle ==
    [pc |-> "idle", spy_count |-> 0,
     order |-> <<>>, idx |-> 0, candidates |-> <<>>,
     votes_raw |-> <<>>,
     tie_candidates |-> <<>>, debate_contents |-> <<>>, revote_counts |-> <<>>,
     eliminated |-> "none", deviations |-> 0,
     history |-> <<>>, handed |-> <<>>,
     completed |-> <<>>, in_order |-> TRUE, hung |-> {}]

NoCall == [op |-> "none", args |-> <<>>, err |-> "none", val |-> "none"]

Call(op, args, err, val) == [op |-> op, args |-> args, err |-> err, val |-> val]

\* an exception leaves run_game (or the entry point): nothing runs after it
Crashed(op, r) ==
    /\ session' = r.s
    /\ ret' = Call(op, <<>>, r.err, "none")
    /\ engine' = [engine EXCEPT !.pc = "crashed"]

\* the budget left for replies other than the scripted default
CanDeviate(n) == engine.deviations + n <= MaxDeviations

Cost(reply, default) == IF reply = default THEN 0 ELSE 1

\* main.py 183-195 and 243-246: main refuses spy_count >= player_count
MainCreateSession ==
    /\ engine.pc = "start"
    /\ UNCHANGED <<ret, calls>>
    /\ IF engine.spy_count >= Len(Roster)
       THEN /\ engine' = [engine EXCEPT !.pc = "refused"]
            /\ UNCHANGED session
       ELSE \E order \in SpeakingOrders :
            /\ session' = create_session(1, Roster, engine.spy_count, order)
            /\ engine' = [engine EXCEPT !.pc = "initialize"]

\* server.py 124-144: run_game_logic checks the number of players only
ServerCreateSession ==
    /\ engine.pc = "start"
    /\ UNCHANGED <<ret, calls>>
    /\ \E order \in SpeakingOrders :
       /\ session' = create_session(1, Roster, engine.spy_count, order)
       /\ engine' = [engine EXCEPT !.pc = "initialize"]

\* main.py 249, server.py 146
InitializeGame ==
    /\ engine.pc = "initialize"
    /\ UNCHANGED calls
    /\ IF sample_spies(session) = {}
       THEN Crashed("initialize_game",
                    initialize_game(session, CivilianWord, SpyWord, {}))
       ELSE \E spy_names \in sample_spies(session) :
            /\ session' = initialize_game(session, CivilianWord, SpyWord, spy_names).s
            /\ engine' = [engine EXCEPT !.pc = "round_start"]
            /\ UNCHANGED ret

\* run_game 54-57 and run_description_round 96-109
StartNewRound ==
    /\ engine.pc = "round_start"
    /\ UNCHANGED calls
    /\ LET r == start_new_round(session)
       IN IF r.err # "none" THEN Crashed("start_new_round", r)
          ELSE /\ session' = r.s
               /\ engine' = [engine EXCEPT
                      !.pc = "describe", !.idx = 1,
                      !.order = get_alive_speaking_order(r.s),
                      !.candidates = <<>>, !.votes_raw = <<>>,
                      !.tie_candidates = <<>>,
                      !.debate_contents = <<>>, !.revote_counts = <<>>,
                      !.eliminated = "none",
                      !.history = format_round_history(r.s),
                      !.handed = <<>>,
                      !.completed = <<>>, !.in_order = TRUE, !.hung = {}]
               /\ UNCHANGED ret

\* faulty variant: nothing is recorded for a player whose describe call raised
describe_turn_unrecorded(s, player_name, reply) ==
    IF reply = Raise THEN Result(agent_call(s, player_name, reply, TRUE), "none", "none")
    ELSE record_description(agent_call(s, player_name, reply, TRUE), player_name, "stmt")

\* run_description_round 118-151: the call and the statement recorded for it,
\* the agent's, or the fixed one of the except branch
describe_turn(s, player_name, reply) ==
    record_description(agent_call(s, player_name, reply, TRUE), player_name,
                       IF reply = Raise THEN FallbackStatement ELSE "stmt")

\* run_description_round 140-151: the history after a turn; only the try
\* branch rebuilds it
history_after_turn(s, history, reply) ==
    IF reply = Raise THEN history
    ELSE format_round_history(s) \o current_round_section(s)

\* run_description_round 111-151: one player's turn
Describe ==
    /\ engine.pc = "describe"
    /\ engine.idx <= Len(engine.order)
    /\ UNCHANGED calls
    /\ \E reply \in TextReplies :
       LET player_name == engine.order[engine.idx]
           r == describe_turn(session, player_name, reply)
       IN /\ CanDeviate(Cost(reply, "text"))
          /\ IF r.err # "none" THEN Crashed("record_description", r)
             ELSE /\ session' = r.s
                  /\ engine' = [engine EXCEPT
                         !.idx = @ + 1,
                         !.deviations = @ + Cost(reply, "text"),
                         !.handed = Append(@, <<player_name, engine.history>>),
                         !.history = history_after_turn(r.s, @, reply)]
                  /\ UNCHANGED ret

\* run_human_detection_round 162-178
BeginHumanDetection ==
    /\ engine.pc = "describe"
    /\ engine.idx > Len(engine.order)
    /\ engine' = [engine EXCEPT
           !.pc = "human", !.idx = 1,
           !.candidates = get_alive_player_names(session),
           !.order = get_alive_speaking_order(session)]
    /\ UNCHANGED <<session, ret, calls>>

\* run_human_detection_round 180-209: one player's ballot
HumanVote ==
    /\ engine.pc = "human"
    /\ engine.idx <= Len(engine.order)
    /\ UNCHANGED calls
    /\ \E reply \in VoteReplies :
       LET player_name == engine.order[engine.idx]
           valid_candidates == others(engine.candidates, player_name)
           cost == Cost(reply, DefaultVote(valid_candidates))
           s1 == agent_call(session, player_name, reply, TRUE)
       IN /\ CanDeviate(cost)
          /\ engine' = [engine EXCEPT !.idx = @ + 1, !.deviations = @ + cost]
          /\ UNCHANGED ret
          /\ IF reply \in SeqSet(valid_candidates)
             THEN session' = record_human_vote(s1, player_name, reply).s
             ELSE IF valid_candidates = <<>> THEN session' = s1
             ELSE \E fallback_vote \in SeqSet(valid_candidates) :
                  session' = record_human_vote(s1, player_name, fallback_vote).s

\* run_human_detection_round 211-222
TallyHumanVotes ==
    /\ engine.pc = "human"
    /\ engine.idx > Len(engine.order)
    /\ session' = tally_human_votes(session).s
    /\ engine' = [engine EXCEPT !.pc = "voting", !.idx = 0,
                                !.order = <<>>, !.candidates = <<>>]
    /\ UNCHANGED <<ret, calls>>

\* faulty variant: a vote for oneself is accepted
is_valid_vote_self(vote_target, candidates, player_name) ==
    vote_target \in SeqSet(candidates)

\* the test of _collect_votes 302: the reply is a candidate other than the voter
is_valid_vote(vote_target, candidates, player_name) ==
    vote_target \in SeqSet(candidates) /\ vote_target # player_name

\* faulty variant: the first name of the tally is taken, whatever its count
vote_outcome_first(vote_counts) ==
    [debate |-> FALSE, tie_candidates |-> <<>>, eliminated |-> vote_counts[1][1]]

\* run_voting_round 255-269: a tie of the leaders goes to the debate
vote_outcome(vote_counts) ==
    LET top_candidates == top_of(vote_counts)
    IN IF Len(top_candidates) > 1
       THEN [debate |-> TRUE, tie_candidates |-> top_candidates, eliminated |-> "none"]
       ELSE [debate |-> FALSE, tie_candidates |-> <<>>, eliminated |-> top_candidates[1]]

\* run_game 66-67, run_voting_round 233-253, _collect_votes 271-281
StartVoting ==
    /\ engine.pc = "voting"
    /\ UNCHANGED calls
    /\ LET t == transition_phase(session, "voting")
       IN IF t.err # "none" THEN Crashed("transition_phase", t)
          ELSE /\ session' = t.s
               /\ engine' = [engine EXCEPT
                      !.pc = "vote_tasks", !.idx = 1,
                      !.candidates = get_alive_player_names(t.s),
                      !.order = get_alive_speaking_order(t.s),
                      !.votes_raw = <<>>]
               /\ UNCHANGED ret

\* _collect_votes 283-296: one voter's task of the gather returns or raises;
\* a task touches its own player's conversation only, so the tasks are taken
\* in speaking order
VoteTask ==
    /\ engine.pc = "vote_tasks"
    /\ engine.idx <= Len(engine.order)
    /\ UNCHANGED <<ret, calls>>
    /\ \E reply \in VoteReplies :
       LET player_name == engine.order[engine.idx]
           cost == Cost(reply, DefaultVote(others(engine.candidates, player_name)))
       IN /\ CanDeviate(cost)
          /\ session' = agent_call(session, player_name, reply, TRUE)
          /\ engine' = [engine EXCEPT
                 !.idx = @ + 1,
                 !.votes_raw = Append(@, <<player_name, reply>>),
                 !.deviations = @ + cost]

\* the voters whose task has not settled yet
pending(order, completed) == SeqSet(order) \ DictKeys(completed)

\* faulty variant: a task that raises cancels the tasks still pending, which
\* settle as raised without their agent being called
settle_cancelling(completed, order, player_name, reply) ==
    IF reply # Raise THEN Append(completed, <<player_name, reply>>)
    ELSE Append(completed, <<player_name, reply>>)
         \o [i \in 1 .. Len(Filter(order, pending(order, completed) \ {player_name})) |->
                <<Filter(order, pending(order, completed) \ {player_name})[i], Raise>>]

\* a task settles with what _get_player_vote returned, or with the exception
\* it raised; the other tasks go on
settle(completed, order, player_name, reply) ==
    Append(completed, <<player_name, reply>>)

\* faulty variant: the task records its own ballot as soon as its call
\* returns, before the join
VoteTaskRecording ==
    /\ engine.pc = "vote_tasks"
    /\ UNCHANGED <<ret, calls>>
    /\ \E player_name \in pending(engine.order, engine.completed) \ engine.hung :
       \E reply \in VoteReplies :
          /\ session' = IF reply = Raise
                        THEN agent_call(session, player_name, reply, TRUE)
                        ELSE record_vote(agent_call(session, player_name, reply, TRUE),
                                         player_name, reply).s
          /\ engine' = [engine EXCEPT
                 !.completed = settle(@, engine.order, player_name, reply)]

\* _collect_votes 283-296: the tasks of the gather run concurrently (each
\* sleeps random.uniform(1.0, 5.0) and awaits its agent), so any pending
\* voter's task may be the next to settle, with any reply
VoteTaskAnyOrder ==
    /\ engine.pc = "vote_tasks"
    /\ UNCHANGED <<ret, calls>>
    /\ \E player_name \in pending(engine.order, engine.completed) \ engine.hung :
       \E reply \in VoteReplies :
          /\ session' = agent_call(session, player_name, reply, TRUE)
          /\ engine' = [engine EXCEPT
                 !.completed = settle(@, engine.order, player_name, reply)]

\* _collect_votes 283-296 with LLMPlayer.vote (llm_player.py 180-189): the
\* prompt is added to the voter's conversation and the awaited client call
\* never completes; the task is awaited by the gather without a timeout
\* (config.py 30 vote_timeout is read nowhere), so it stays pending
VoteTaskHangs ==
    /\ engine.pc = "vote_tasks"
    /\ UNCHANGED <<ret, calls>>
    /\ \E player_name \in pending(engine.order, engine.completed) \ engine.hung :
          /\ session' = [session EXCEPT !.players[player_name].conversation =
                                           add_message(@, "user")]
          /\ engine' = [engine EXCEPT !.hung = @ \cup {player_name}]

\* faulty variant: the results in the order in which the tasks settled
gather_as_completed(order, completed) == completed

\* asyncio.gather(*tasks, return_exceptions=True): the results (values and
\* exceptions) in the order of the tasks
gather(order, completed) ==
    [i \in DOMAIN order |-> <<order[i], DictGet(completed, order[i])>>]

\* _collect_votes 296: the gather returns once every task has settled
GatherAnyOrder ==
    /\ engine.pc = "vote_tasks"
    /\ engine.completed # <<>>
    /\ pending(engine.order, engine.completed) = {}
    /\ engine' = [engine EXCEPT
           !.pc = "vote_apply", !.idx = 1,
           !.votes_raw = gather(engine.order, engine.completed),
           !.completed = <<>>,
           !.in_order = ([i \in DOMAIN engine.completed |-> engine.completed[i][1]]
                            = engine.order)]
    /\ UNCHANGED <<session, ret, calls>>

\* _collect_votes 296: the gather returns once every task is done
GatherReturns ==
    /\ engine.pc = "vote_tasks"
    /\ engine.idx > Len(engine.order)
    /\ engine' = [engine EXCEPT !.pc = "vote_apply", !.idx = 1]
    /\ UNCHANGED <<session, ret, calls>>

\* _collect_votes 298-322: one turn of the loop over the results; a result
\* that is an exception or not a valid vote is replaced by a random.choice
\* among the other candidates
ApplyVote ==
    /\ engine.pc = "vote_apply"
    /\ engine.idx <= Len(engine.order)
    /\ UNCHANGED <<ret, calls>>
    /\ engine' = [engine EXCEPT !.idx = @ + 1]
    /\ LET player_name == engine.order[engine.idx]
           vote_target == engine.votes_raw[engine.idx][2]
           valid_candidates == others(engine.candidates, player_name)
       IN IF vote_target # Raise
             /\ is_valid_vote(vote_target, engine.candidates, player_name)
          THEN session' = record_vote(session, player_name, vote_target).s
          ELSE IF valid_candidates # <<>>
          THEN \E fallback \in SeqSet(valid_candidates) :
                  session' = record_vote(session, player_name, fallback).s
          ELSE session' = session

\* _collect_votes 324-330 and run_voting_round 255-269: the ballots are
\* tallied and the outcome decided
CollectVotes ==
    /\ engine.pc = "vote_apply"
    /\ engine.idx > Len(engine.order)
    /\ UNCHANGED calls
    /\ \E r \in {tally_votes(session)} :
          IF r.err # "none" THEN Crashed("tally_votes", r)
          ELSE LET out == vote_outcome(
                       r.s.round_history[Len(r.s.round_history)].vote_counts)
               IN /\ session' = r.s
                  /\ UNCHANGED ret
                  /\ engine' = [engine EXCEPT
                         !.pc = IF out.debate THEN "debate" ELSE "eliminate",
                         !.idx = 1,
                         !.tie_candidates = out.tie_candidates,
                         !.eliminated = out.eliminated]

\* _run_debate_and_revote 350-376: one tied candidate's defence
DebateCall(charged) ==
    /\ engine.pc = "debate"
    /\ engine.idx <= Len(engine.tie_candidates)
    /\ UNCHANGED <<ret, calls>>
    /\ \E reply \in TextReplies :
       LET candidate == engine.tie_candidates[engine.idx]
           cost == IF charged THEN Cost(reply, "text") ELSE 0
       IN /\ CanDeviate(cost)
          /\ session' = agent_call(session, candidate, reply, TRUE)
          /\ engine' = [engine EXCEPT
                 !.idx = @ + 1,
                 !.debate_contents =
                     Append(@, <<candidate, IF reply = Raise THEN "failed" ELSE "text">>),
                 !.deviations = @ + cost]

\* the defence of an agent that follows its script but for the budget
Debate == DebateCall(TRUE)

\* the defence of an agent that may reply anything
DebateAny == DebateCall(FALSE)

\* {c: 0 for c in tie_candidates}
RECURSIVE zero_counts(_)
zero_counts(names) ==
    IF names = <<>> THEN <<>> ELSE <<<<Head(names), 0>>>> \o zero_counts(Tail(names))

\* faulty variant: the tied candidates vote again as well
revote_voters_all(speaking_order, tie_candidates) ==
    speaking_order

\* [p for p in speaking_order if p not in tie_candidates]
revote_voters(speaking_order, tie_candidates) ==
    Filter(speaking_order, RosterNames \ SeqSet(tie_candidates))

\* _run_debate_and_revote 388-394: the voters are the alive players not tied
BeginRevote ==
    /\ engine.pc = "debate"
    /\ engine.idx > Len(engine.tie_candidates)
    /\ engine' = [engine EXCEPT
           !.pc = "revote", !.idx = 1,
           !.order = revote_voters(get_alive_speaking_order(session),
                                   engine.tie_candidates),
           !.revote_counts = zero_counts(engine.tie_candidates)]
    /\ UNCHANGED <<session, ret, calls>>

\* _run_debate_and_revote 396-429: one voter's second ballot
RevoteCall(charged) ==
    /\ engine.pc = "revote"
    /\ engine.idx <= Len(engine.order)
    /\ UNCHANGED <<ret, calls>>
    /\ \E reply \in VoteReplies :
       LET voter_name == engine.order[engine.idx]
           cost == IF charged THEN Cost(reply, DefaultVote(engine.tie_candidates)) ELSE 0
       IN /\ CanDeviate(cost)
          /\ session' = agent_call(session, voter_name, reply, TRUE)
          /\ \E counted \in SeqSet(engine.tie_candidates) :
             /\ reply \in SeqSet(engine.tie_candidates) => counted = reply
             /\ engine' = [engine EXCEPT
                    !.idx = @ + 1,
                    !.revote_counts =
                        DictPut(@, counted, DictGetOr(@, counted, 0) + 1),
                    !.deviations = @ + cost]

\* the second ballot of an agent that follows its script but for the budget
Revote == RevoteCall(TRUE)

\* the second ballot of an agent that may reply anything
RevoteAny == RevoteCall(FALSE)

\* faulty variant: the eliminated one is drawn from the alive players that
\* were not tied
revote_outcome_untied(vote_counts, tie_candidates) ==
    {n \in DOMAIN session.players : session.players[n].is_alive} \ SeqSet(tie_candidates)

\* faulty variant: the eliminated one is drawn from all the tied candidates
revote_outcome_random(vote_counts, tie_candidates) ==
    SeqSet(tie_candidates)

\* _run_debate_and_revote 437-447: the names the eliminated one is drawn from
revote_outcome(vote_counts, tie_candidates) ==
    LET top_candidates == top_of(vote_counts)
    IN IF Len(top_candidates) > 1 THEN SeqSet(top_candidates)
       ELSE IF top_candidates # <<>> THEN {top_candidates[1]}
       ELSE SeqSet(tie_candidates)

ResolveRevote ==
    /\ engine.pc = "revote"
    /\ engine.idx > Len(engine.order)
    /\ \E eliminated \in revote_outcome(engine.revote_counts, engine.tie_candidates) :
       engine' = [engine EXCEPT !.pc = "eliminate", !.idx = 0, !.order = <<>>,
                                !.eliminated = eliminated]
    /\ UNCHANGED <<session, ret, calls>>

\* run_game 70-71
Eliminate ==
    /\ engine.pc = "eliminate"
    /\ UNCHANGED calls
    /\ LET t == transition_phase(session, "elimination")
           r == eliminate_player(t.s, engine.eliminated)
       IN IF t.err # "none" THEN Crashed("transition_phase", t)
          ELSE IF r.err # "none" THEN Crashed("eliminate_player", r)
          ELSE /\ session' = r.s
               /\ engine' = [engine EXCEPT !.pc = "leave"]
               /\ UNCHANGED ret

\* faulty variant: a raised leave_message call leaves run_game
LeaveMessage_unguarded ==
    /\ engine.pc = "leave"
    /\ UNCHANGED calls
    /\ \E reply \in TextReplies :
       /\ CanDeviate(Cost(reply, "text"))
       /\ IF reply = Raise
          THEN Crashed("leave_message",
                       Result(agent_call(session, engine.eliminated, reply, FALSE),
                              "Exception", "none"))
          ELSE /\ session' = agent_call(session, engine.eliminated, reply, FALSE)
               /\ engine' = [engine EXCEPT !.pc = "check"]
               /\ UNCHANGED ret

\* run_game 73-80: the last words of the eliminated player, best effort
LeaveMessage ==
    /\ engine.pc = "leave"
    /\ UNCHANGED <<ret, calls>>
    /\ \E reply \in TextReplies :
       /\ CanDeviate(Cost(reply, "text"))
       /\ session' = agent_call(session, engine.eliminated, reply, FALSE)
       /\ engine' = [engine EXCEPT !.pc = "check",
                                   !.deviations = @ + Cost(reply, "text")]

\* run_game 86-92
CheckWin ==
    /\ engine.pc = "check"
    /\ UNCHANGED calls
    /\ LET winner == check_win_condition(session)
           r == end_session(session, winner)
       IN IF winner = "none"
          THEN /\ engine' = [engine EXCEPT !.pc = "round_start"]
               /\ UNCHANGED <<session, ret>>
          ELSE IF r.err # "none" THEN Crashed("end_session", r)
          ELSE /\ session' = r.s
               /\ engine' = [engine EXCEPT !.pc = "done"]
               /\ UNCHANGED ret

\* the display notifications of run_game that are outside every try
DisplayOps == {"show_round_start", "show_vote", "show_elimination"}

\* run_game 54-57: show_round_start raises after start_new_round
RoundStartDisplayFails ==
    /\ engine.pc = "round_start"
    /\ CanDeviate(1)
    /\ UNCHANGED calls
    /\ LET r == start_new_round(session)
       IN /\ r.err = "none"
          /\ Crashed("show_round_start", Result(r.s, "Exception", "none"))

\* run_description_round 118-151: show_thinking (120) raises before the
\* describe call, or show_description (138) after record_description; both
\* are inside the try, so the except branch records the fixed statement
DescribeDisplayFails ==
    /\ engine.pc = "describe"
    /\ engine.idx <= Len(engine.order)
    /\ CanDeviate(1)
    /\ UNCHANGED <<ret, calls>>
    /\ \E op \in {"show_thinking", "show_description"} :
       LET player_name == engine.order[engine.idx]
           s1 == IF op = "show_thinking" THEN session
                 ELSE describe_turn(session, player_name, "text").s
           r == record_description(s1, player_name, FallbackStatement)
       IN /\ session' = r.s
          /\ engine' = [engine EXCEPT
                 !.idx = @ + 1,
                 !.deviations = @ + 1,
                 !.handed = IF op = "show_thinking" THEN @
                            ELSE Append(@, <<player_name, engine.history>>)]

\* _collect_votes 283-296: show_thinking (290) raises inside a vote task; the
\* gather returns the exception as the task's result, the agent is not called
VoteThinkingDisplayFails ==
    /\ engine.pc = "vote_tasks"
    /\ engine.idx <= Len(engine.order)
    /\ CanDeviate(1)
    /\ UNCHANGED <<session, ret, calls>>
    /\ engine' = [engine EXCEPT
           !.idx = @ + 1,
           !.votes_raw = Append(@, <<engine.order[engine.idx], Raise>>),
           !.deviations = @ + 1]

\* _collect_votes 298-322: show_vote raises after record_vote, outside every try
VoteDisplayFails ==
    /\ engine.pc = "vote_apply"
    /\ engine.idx <= Len(engine.order)
    /\ CanDeviate(1)
    /\ UNCHANGED calls
    /\ LET player_name == engine.order[engine.idx]
           vote_target == engine.votes_raw[engine.idx][2]
           valid_candidates == others(engine.candidates, player_name)
       IN IF vote_target # Raise
             /\ is_valid_vote(vote_target, engine.candidates, player_name)
          THEN Crashed("show_vote",
                       Result(record_vote(session, player_name, vote_target).s,
                              "Exception", "none"))
          ELSE /\ valid_candidates # <<>>
               /\ \E fallback \in SeqSet(valid_candidates) :
                     Crashed("show_vote",
                             Result(record_vote(session, player_name, fallback).s,
                                    "Exception", "none"))

\* run_game 82-83: show_elimination raises before the win check
EliminationDisplayFails ==
    /\ engine.pc = "check"
    /\ CanDeviate(1)
    /\ UNCHANGED calls
    /\ Crashed("show_elimination", Result(session, "Exception", "none"))

Init ==
    /\ session = NoSession
    /\ ret = NoCall
    /\ calls = 0
    /\ \E spy_count \in SpyCounts :
       engine = [EngineIdle EXCEPT !.pc = "start", !.spy_count = spy_count]

Next ==
    \/ MainCreateSession
    \/ ServerCreateSession
    \/ InitializeGame
    \/ StartNewRound
    \/ Describe
    \/ BeginHumanDetection
    \/ HumanVote
    \/ TallyHumanVotes
    \/ StartVoting
    \/ VoteTask
    \/ GatherReturns
    \/ ApplyVote
    \/ CollectVotes
    \/ Debate
    \/ BeginRevote
    \/ Revote
    \/ ResolveRevote
    \/ Eliminate
    \/ LeaveMessage
    \/ CheckWin

Spec == Init /\ [][Next]_vars

\* the event loop keeps running run_game, and every agent call made returns
\* or raises
FairSpec == Spec /\ WF_vars(Next)

\* run_game with agents that reply anything in the tie-break (debate and
\* re-vote) and follow the script but for the budget everywhere else
NextDebate ==
    \/ MainCreateSession
    \/ ServerCreateSession
    \/ InitializeGame
    \/ StartNewRound
    \/ Describe
    \/ BeginHumanDetection
    \/ HumanVote
    \/ TallyHumanVotes
    \/ StartVoting
    \/ VoteTask
    \/ GatherReturns
    \/ ApplyVote
    \/ CollectVotes
    \/ DebateAny
    \/ BeginRevote
    \/ RevoteAny
    \/ ResolveRevote
    \/ Eliminate
    \/ LeaveMessage
    \/ CheckWin

SpecDebate == Init /\ [][NextDebate]_vars

\* run_game started by the server, whose engine has a display sink: a
\* notification may raise, within the budget
NextDisplay ==
    \/ ServerCreateSession
    \/ InitializeGame
    \/ StartNewRound
    \/ RoundStartDisplayFails
    \/ Describe
    \/ DescribeDisplayFails
    \/ BeginHumanDetection
    \/ HumanVote
    \/ TallyHumanVotes
    \/ StartVoting
    \/ VoteTask
    \/ VoteThinkingDisplayFails
    \/ GatherReturns
    \/ ApplyVote
    \/ VoteDisplayFails
    \/ CollectVotes
    \/ Debate
    \/ BeginRevote
    \/ Revote
    \/ ResolveRevote
    \/ Eliminate
    \/ LeaveMessage
    \/ EliminationDisplayFails
    \/ CheckWin

SpecDisplay == Init /\ [][NextDisplay]_vars

\* the random.sample outcome explored with the fan-out
FanOutSpies == {"B"}

\* an initialized game with one spy, run_game about to begin, whose agents
\* follow the script up to the vote
InitFanOut ==
    /\ ret = NoCall
    /\ calls = 0
    /\ engine = [EngineIdle EXCEPT !.pc = "round_start", !.spy_count = 1,
                                   !.deviations = MaxDeviations]
    /\ \E order \in SpeakingOrders :
          session = initialize_game(create_session(1, Roster, 1, order),
                                    CivilianWord, SpyWord, FanOutSpies).s

\* run_game up to the outcome of the first round's vote, the vote tasks
\* settling in any order with any reply
NextFanOut ==
    \/ StartNewRound
    \/ Describe
    \/ BeginHumanDetection
    \/ HumanVote
    \/ TallyHumanVotes
    \/ StartVoting
    \/ VoteTaskAnyOrder
    \/ GatherAnyOrder
    \/ ApplyVote
    \/ CollectVotes

SpecFanOut == InitFanOut /\ [][NextFanOut]_vars

\* run_game up to the outcome of the first round's vote, where a vote call
\* may also never complete
NextHang ==
    \/ StartNewRound
    \/ Describe
    \/ BeginHumanDetection
    \/ HumanVote
    \/ TallyHumanVotes
    \/ StartVoting
    \/ VoteTaskAnyOrder
    \/ VoteTaskHangs
    \/ GatherAnyOrder
    \/ ApplyVote
    \/ CollectVotes

SpecHang == InitFanOut /\ [][NextHang]_vars

\* the event loop keeps running run_game, and every agent call made returns
\* or raises
FairSpecDebate == SpecDebate /\ WF_vars(NextDebate)

----------------------------------------------------------------------------
(* SpecSM: GameSessionManager's operations called in any order.  A call is  *)
(* one step; ret names it, its arguments and the exception it raised.      *)

\* the roster and the arguments the calls are made with
SMRoster == <<"A", "B", "C">>

SMNames == SeqSet(SMRoster) \cup {Unknown}

SMTargets == {"A", "B"}

SMSpyCounts == {0 - 1, 1}

\* a call by the caller of the manager: the session it leaves, and ret
Returns(op, args, r) ==
    /\ calls < MaxCalls
    /\ calls' = calls + 1
    /\ session' = r.s
    /\ ret' = Call(op, args, r.err, "none")
    /\ UNCHANGED engine

SMCreateSession ==
    /\ session.sid < MaxSessions
    /\ \E spy_count \in SMSpyCounts :
       Returns("create_session", <<spy_count>>,
               Result(create_session(session.sid + 1, SMRoster, spy_count,
                                     <<"C", "A", "B">>), "none", "none"))

SMInitializeGame ==
    \/ /\ sample_spies(session) = {}
       /\ Returns("initialize_game", <<>>,
                  initialize_game(session, CivilianWord, SpyWord, {}))
    \/ \E spy_names \in sample_spies(session) :
       Returns("initialize_game", <<>>,
               initialize_game(session, CivilianWord, SpyWord, spy_names))

SMTransitionPhase ==
    \E new_phase \in Phases :
        Returns("transition_phase", <<new_phase>>, transition_phase(session, new_phase))

SMStartNewRound ==
    Returns("start_new_round", <<>>, start_new_round(session))

SMEndSession ==
    \E winner \in {"civilian", "spy"} :
        Returns("end_session", <<winner>>, end_session(session, winner))

SMEliminatePlayer ==
    \E player_name \in SMNames :
        Returns("eliminate_player", <<player_name>>,
                eliminate_player(session, player_name))

SMRecordDescription ==
    \E player_name \in SMNames :
        Returns("record_description", <<player_name>>,
                record_description(session, player_name, "stmt"))

SMRecordVote ==
    \E voter \in SMNames, target \in SMTargets :
        Returns("record_vote", <<voter, target>>, record_vote(session, voter, target))

SMRecordHumanVote ==
    \E voter \in SMNames, target \in SMTargets :
        Returns("record_human_vote", <<voter, target>>,
                record_human_vote(session, voter, target))

\* the name returned is drawn by random.choice and changes no state
SMTallyVotes ==
    Returns("tally_votes", <<>>, tally_votes(session))

SMTallyHumanVotes ==
    Returns("tally_human_votes", <<>>, tally_human_votes(session))

SMAddToPlayerContext ==
    \E player_name \in SMNames :
        Returns("add_to_player_context", <<player_name>>,
                add_to_player_context(session, player_name, "user"))

SMCheckWinCondition ==
    /\ calls < MaxCalls
    /\ calls' = calls + 1
    /\ ret' = Call("check_win_condition", <<>>, "none", check_win_condition(session))
    /\ UNCHANGED <<session, engine>>

InitSM ==
    /\ session = NoSession
    /\ ret = NoCall
    /\ calls = 0
    /\ engine = EngineIdle

NextSM ==
    \/ SMCreateSession
    \/ SMInitializeGame
    \/ SMTransitionPhase
    \/ SMStartNewRound
    \/ SMEndSession
    \/ SMEliminatePlayer
    \/ SMRecordDescription
    \/ SMRecordVote
    \/ SMRecordHumanVote
    \/ SMTallyVotes
    \/ SMTallyHumanVotes
    \/ SMAddToPlayerContext
    \/ SMCheckWinCondition

SpecSM == InitSM /\ [][NextSM]_vars

----------------------------------------------------------------------------
(* Properties *)

Players == DOMAIN session.players

Rounds == DOMAIN session.round_history

CurrentRound == session.round_history[Len(session.round_history)]

AliveNow == {n \in Players : session.players[n].is_alive}

\* the players not eliminated in an earlier round
AliveInRound(k) == Players \ {session.round_history[j].eliminated : j \in 1 .. (k - 1)}

\* round k's elimination step has run
Eliminated(k) ==
    k < Len(session.round_history) \/ engine.pc \in {"leave", "check", "done", "round_start"}

\* the phase table as the specification gives it
AllowedTransitions ==
    {<<"waiting", "init">>, <<"init", "description">>, <<"description", "voting">>,
     <<"voting", "elimination">>, <<"elimination", "description">>,
     <<"elimination", "finished">>}

\* C1: transition_phase(new) succeeds and sets the phase to new exactly for the
\* six pairs of the phase table; for every other pair, every transition out of
\* Finished and every self-transition included, it raises the invalid-transition
\* error and leaves the session as it was.
C1_TransitionTable ==
    session.sid # 0 =>
        /\ \A new_phase \in Phases :
            LET r == transition_phase(session, new_phase)
            IN IF <<session.phase, new_phase>> \in AllowedTransitions
               THEN r.err = "none" /\ r.s = [session EXCEPT !.phase = new_phase]
               ELSE r.err = "ValueError" /\ r.s = session
        /\ (ret.op = "transition_phase" /\ ret.err = "none")
               => session.phase = ret.args[1]

\* a transition out of Finished was tried and refused
C1_Witness ==
    /\ ret.op = "transition_phase"
    /\ ret.err = "ValueError"
    /\ session.phase = "finished"

\* the win rule as the specification gives it, on the two counts
WinOf(minority, majority) ==
    IF minority = 0 THEN "civilian"
    ELSE IF minority >= majority THEN "spy"
    ELSE "none"

AliveWithRole(s, role) ==
    Cardinality({n \in DOMAIN s.players :
                    s.players[n].role = role /\ s.players[n].is_alive})

\* C2: a call of check_win_condition returns the win rule's value on the counts
\* of alive spies and alive civilians, (0, 0) included, and leaves the session
\* unchanged.
C2_WinEvaluator ==
    [][(ret'.op = "check_win_condition" /\ calls' = calls + 1 /\ session.sid # 0)
        => /\ session' = session
           /\ ret'.val = WinOf(AliveWithRole(session, "spy"),
                               AliveWithRole(session, "civilian"))]_vars

\* check_win_condition was called on a session with the counts (0, 0)
C2_Witness ==
    /\ ret.op = "check_win_condition"
    /\ session.sid # 0
    /\ AliveWithRole(session, "spy") = 0
    /\ AliveWithRole(session, "civilian") = 0
    /\ ret.val = "civilian"

\* check_win_condition was called with one spy and one civilian alive
C2_EvenWitness ==
    /\ ret.op = "check_win_condition"
    /\ AliveWithRole(session, "spy") = 1
    /\ AliveWithRole(session, "civilian") = 1
    /\ ret.val = "spy"

\* C3: once run_game has started on an initialized session, it eventually
\* returns with the phase Finished and a winner set, whatever the agents reply;
\* no exception leaves it and no run goes on for ever.
C3_GameTerminates ==
    (engine.pc = "round_start")
        ~> (engine.pc = "done" /\ session.phase = "finished" /\ session.winner # "none")

\* a game that needed a second round has returned a winner
C3_Witness ==
    /\ engine.pc = "done"
    /\ session.current_round = 2
    /\ session.winner # "none"

\* C4: every round removes exactly one player: once the round's elimination
\* step has run its record names a player who was alive when the round began
\* and is dead now, with that player's role; before it the record names nobody;
\* and nobody is dead but the players the records name.
C4_OneEliminationPerRound ==
    /\ \A k \in Rounds :
        LET rec == session.round_history[k]
        IN IF Eliminated(k)
           THEN /\ rec.eliminated \in AliveInRound(k)
                /\ ~session.players[rec.eliminated].is_alive
                /\ rec.eliminated_role = session.players[rec.eliminated].role
           ELSE rec.eliminated = "none" /\ rec.eliminated_role = "none"
    /\ Players \ AliveNow =
           {session.round_history[k].eliminated : k \in {j \in Rounds : Eliminated(j)}}

\* the second round's elimination has run
C4_Witness ==
    /\ engine.pc = "check"
    /\ Len(session.round_history) = 2
    /\ Cardinality(Players \ AliveNow) = 2

\* C5: within one session no call turns a false is_alive flag back to true.
C5_AliveMonotonic ==
    [][session'.sid = session.sid
        => \A n \in Players :
              ~session.players[n].is_alive => ~session'.players[n].is_alive]_vars

\* a call was made on a session that has an eliminated player
C5_Witness ==
    /\ ret.op = "initialize_game"
    /\ ret.err = "none"
    /\ \E n \in Players : ~session.players[n].is_alive

\* C6 (as claimed): players have roles only in a session whose spy_count
\* satisfies 0 < spy_count < total_players.
C6_RolesOnlyForValidCount ==
    (\E n \in Players : session.players[n].role # "none")
        => (0 < session.spy_count /\ session.spy_count < session.total_players)

\* C7 (as claimed): initialize_game called in a phase other than Waiting
\* changes no role, no token, no conversation and not the phase.
C7_InitializeOnlyInWaiting ==
    [][(ret'.op = "initialize_game" /\ calls' = calls + 1
            /\ session.sid # 0 /\ session.phase # "waiting")
        => /\ session'.phase = session.phase
           /\ \A n \in Players :
                 /\ session'.players[n].role = session.players[n].role
                 /\ session'.players[n].word = session.players[n].word
                 /\ session'.players[n].conversation
                        = session.players[n].conversation]_vars

\* C8: right after initialize_game on a session with 0 < spy_count <
\* total_players, exactly spy_count players are spies and the others civilians,
\* a player holds the spy word exactly when it is a spy and the civilian word
\* otherwise, every conversation is one system message, everybody is alive and
\* the phase is Init.
C8_AfterInitialize ==
    (/\ engine.pc = "round_start"
     /\ session.current_round = 0
     /\ 0 < session.spy_count
     /\ session.spy_count < session.total_players)
        => /\ Cardinality({n \in Players : session.players[n].role = "spy"})
                  = session.spy_count
           /\ \A n \in Players :
                 /\ session.players[n].role \in {"spy", "civilian"}
                 /\ session.players[n].word =
                        (IF session.players[n].role = "spy" THEN SpyWord
                         ELSE CivilianWord)
                 /\ session.players[n].conversation = <<"system">>
                 /\ session.players[n].is_alive
           /\ session.phase = "init"

\* two of the four players were made spies
C8_Witness ==
    /\ engine.pc = "round_start"
    /\ session.phase = "init"
    /\ session.spy_count = 2
    /\ Cardinality({n \in Players : session.players[n].role = "spy"}) = 2

\* the i-th result of the gather has been through the loop that records it
Applied(i) ==
    /\ engine.pc # "vote_tasks"
    /\ engine.pc = "vote_apply" => i < engine.idx

\* every ballot of ledger d has a voter and a target alive in round k, the
\* target not the voter
ValidLedger(d, k) ==
    \A i \in DOMAIN d :
        /\ d[i][1] \in AliveInRound(k)
        /\ d[i][2] \in AliveInRound(k)
        /\ d[i][1] # d[i][2]

\* C9: every ballot in a round's primary or advisory ledger has a voter alive
\* in that round and a target alive in that round other than the voter; once
\* the primary vote is tallied both ledgers hold a ballot of every player alive
\* in the round, so a reply that is not a valid target was replaced, not
\* dropped; in the primary vote a valid reply is recorded as given, and any
\* other reply (a dead player, the voter, an unknown name, a failed call) is
\* recorded as some other alive player than the voter, never as given.
C9_BallotsValid ==
    /\ \A k \in Rounds :
        /\ ValidLedger(session.round_history[k].votes, k)
        /\ ValidLedger(session.round_history[k].human_votes, k)
        /\ session.round_history[k].vote_counts # <<>> =>
              /\ DictKeys(session.round_history[k].votes) = AliveInRound(k)
              /\ DictKeys(session.round_history[k].human_votes) = AliveInRound(k)
    /\ \A i \in {j \in DOMAIN engine.votes_raw : Applied(j)} :
        LET voter == engine.votes_raw[i][1]
            reply == engine.votes_raw[i][2]
            valid == AliveInRound(Len(session.round_history)) \ {voter}
            recorded == DictGet(CurrentRound.votes, voter)
        IN /\ DictHas(CurrentRound.votes, voter)
           /\ recorded \in valid
           /\ reply \in valid <=> recorded = reply

\* in the second round a voter named the player eliminated in the first
C9_Witness ==
    /\ Len(session.round_history) = 2
    /\ \E i \in {j \in DOMAIN engine.votes_raw : Applied(j)} :
        /\ engine.votes_raw[i][2] = session.round_history[1].eliminated
        /\ DictHas(CurrentRound.votes, engine.votes_raw[i][1])

Ballots == CurrentRound.votes

BallotTargets == {Ballots[i][2] : i \in DOMAIN Ballots}

BallotCount(n) == Cardinality({i \in DOMAIN Ballots : Ballots[i][2] = n})

\* the players holding the maximum of the tally of the recorded ballots
Leaders == {n \in BallotTargets : \A m \in BallotTargets : BallotCount(m) <= BallotCount(n)}

\* the orders in which n ballots can arrive
Arrivals(n) == {p \in [1 .. n -> 1 .. n] : \A i, j \in 1 .. n : p[i] = p[j] => i = j}

\* the outcome of the tally had the recorded ballots arrived in order p
OutcomeInOrder(p) ==
    vote_outcome(count_votes([i \in DOMAIN Ballots |-> Ballots[p[i]][2]], <<>>))

\* C10: after the primary vote the recorded tally counts the recorded ballots;
\* with a unique maximum that player is the elimination target and no debate
\* is run, in whatever order the ballots arrive; with several players at the
\* maximum the debate is entered with exactly those players.
C10_PrimaryTally ==
    engine.pc \in {"debate", "revote", "eliminate"} =>
        /\ DictKeys(CurrentRound.vote_counts) = BallotTargets
        /\ \A n \in BallotTargets : DictGet(CurrentRound.vote_counts, n) = BallotCount(n)
        /\ IF Cardinality(Leaders) = 1
           THEN /\ engine.pc = "eliminate"
                /\ engine.eliminated \in Leaders
                /\ engine.tie_candidates = <<>>
                /\ engine.debate_contents = <<>>
                /\ \A p \in Arrivals(Len(Ballots)) :
                      /\ ~OutcomeInOrder(p).debate
                      /\ OutcomeInOrder(p).eliminated = engine.eliminated
           ELSE /\ SeqSet(engine.tie_candidates) = Leaders
                /\ Len(engine.tie_candidates) = Cardinality(Leaders)
                /\ \A p \in Arrivals(Len(Ballots)) :
                      /\ OutcomeInOrder(p).debate
                      /\ SeqSet(OutcomeInOrder(p).tie_candidates) = Leaders

\* a split vote with a unique maximum chose the target without a debate
C10_Witness ==
    /\ engine.pc = "eliminate"
    /\ engine.tie_candidates = <<>>
    /\ Cardinality(BallotTargets) >= 2
    /\ Cardinality(Leaders) = 1
    /\ engine.eliminated \in Leaders

\* a tie of two leaders entered the debate
C10_TieWitness ==
    /\ engine.pc = "debate"
    /\ Cardinality(Leaders) = 2
    /\ SeqSet(engine.tie_candidates) = Leaders

\* the tie set of the round's debate, empty when there was none
TieSet == SeqSet(engine.tie_candidates)

\* the tied candidates holding the maximum of the re-vote tally
RevoteLeaders ==
    {n \in DictKeys(engine.revote_counts) :
        \A m \in DictKeys(engine.revote_counts) :
            DictGet(engine.revote_counts, m) <= DictGet(engine.revote_counts, n)}

\* the debate and the re-vote of the round are over
RevoteResolved ==
    engine.tie_candidates # <<>> /\ engine.pc \in {"eliminate", "leave", "check", "done"}

\* C11: a debate is held over a tie set of at least two alive players, in one
\* pass (one defence per tied player, none once the re-vote has begun) followed
\* by one re-vote over exactly the tie set; it ends with exactly one player to
\* eliminate, a member of the tie set holding the maximum of the re-vote
\* tally, hence the unique maximum when there is one; never with nobody.
C11_TieBreakResolves ==
    /\ engine.tie_candidates # <<>> =>
          /\ Cardinality(TieSet) >= 2
          /\ Len(engine.tie_candidates) = Cardinality(TieSet)
          /\ Len(engine.debate_contents) <= Len(engine.tie_candidates)
    /\ engine.pc = "debate" => engine.revote_counts = <<>>
    /\ engine.pc = "revote" =>
          /\ Len(engine.debate_contents) = Len(engine.tie_candidates)
          /\ DictKeys(engine.revote_counts) = TieSet
    /\ RevoteResolved =>
          /\ Len(engine.debate_contents) = Len(engine.tie_candidates)
          /\ DictKeys(engine.revote_counts) = TieSet
          /\ engine.eliminated # "none"
          /\ engine.eliminated \in TieSet
          /\ engine.eliminated \in RevoteLeaders

\* a re-vote with a unique maximum chose the player to eliminate
C11_Witness ==
    /\ engine.pc = "eliminate"
    /\ engine.tie_candidates # <<>>
    /\ Cardinality(RevoteLeaders) = 1
    /\ DictGet(engine.revote_counts, engine.eliminated) > 0
    /\ \E n \in TieSet : DictGet(engine.revote_counts, n) < DictGet(engine.revote_counts, engine.eliminated)

\* every alive player was tied, so nobody could vote again
C11_NoVoterWitness ==
    /\ engine.pc = "eliminate"
    /\ engine.tie_candidates # <<>>
    /\ TieSet = AliveNow
    /\ \A n \in TieSet : DictGet(engine.revote_counts, n) = 0

\* the votes counted in the re-vote tally
RevoteTotal ==
    LET RECURSIVE Sum(_)
        Sum(d) == IF d = <<>> THEN 0 ELSE Head(d)[2] + Sum(Tail(d))
    IN Sum(engine.revote_counts)

\* the alive players outside the tie set, in the fixed speaking order
EligibleRevoters ==
    SelectSeq(session.speaking_order,
              LAMBDA n : session.players[n].is_alive /\ n \notin TieSet)

\* C12: in the re-vote the players asked are exactly the alive players outside
\* the tie set, each once; every voter asked so far added exactly one vote to
\* the tally, the tally has entries only for members of the tie set, and when
\* the re-vote is over it holds one vote per alive player outside the tie set.
C12_RevoteElectorate ==
    /\ engine.pc = "revote" =>
          /\ engine.order = EligibleRevoters
          /\ \A i, j \in DOMAIN engine.order : engine.order[i] = engine.order[j] => i = j
          /\ DictKeys(engine.revote_counts) = TieSet
          /\ RevoteTotal = engine.idx - 1
    /\ RevoteResolved =>
          /\ DictKeys(engine.revote_counts) = TieSet
          /\ RevoteTotal = Cardinality(AliveNow \ TieSet)

\* the re-vote call of an alive player outside the tie set raised (its
\* conversation ends with the prompt), and still both alive non-candidates
\* have one vote each in the tally
C12_Witness ==
    /\ engine.pc = "eliminate"
    /\ engine.tie_candidates # <<>>
    /\ Cardinality(AliveNow \ TieSet) = 2
    /\ RevoteTotal = 2
    /\ \E n \in AliveNow \ TieSet :
          LET c == session.players[n].conversation
          IN c # <<>> /\ c[Len(c)] = "user"

\* a round record but for its advisory ledger and advisory tally
PrimaryPart(rec) ==
    [round_number |-> rec.round_number, descriptions |-> rec.descriptions,
     votes |-> rec.votes, vote_counts |-> rec.vote_counts,
     eliminated |-> rec.eliminated, eliminated_role |-> rec.eliminated_role]

\* C13: a step of the advisory round (a player's advisory ballot, or the
\* advisory tally, whatever its leaders and their count) changes no player's
\* alive flag, role, word, statement list or vote list, no elimination field,
\* primary ledger or primary tally of any round record, no earlier round, and
\* neither the phase nor the winner; the ballots it records go to the advisory
\* ledger of the current round and the tally to its advisory tally.
C13_AdvisoryNeverEliminates ==
    [][engine.pc = "human" =>
          /\ DOMAIN session'.players = DOMAIN session.players
          /\ \A n \in DOMAIN session.players :
                /\ session'.players[n].is_alive = session.players[n].is_alive
                /\ session'.players[n].role = session.players[n].role
                /\ session'.players[n].word = session.players[n].word
                /\ session'.players[n].descriptions = session.players[n].descriptions
                /\ session'.players[n].votes = session.players[n].votes
          /\ Len(session'.round_history) = Len(session.round_history)
          /\ \A k \in DOMAIN session.round_history :
                /\ PrimaryPart(session'.round_history[k]) = PrimaryPart(session.round_history[k])
                /\ k < Len(session.round_history) =>
                      session'.round_history[k] = session.round_history[k]
          /\ session'.phase = session.phase
          /\ session'.winner = session.winner
          /\ session'.current_round = session.current_round
          /\ engine'.eliminated = engine.eliminated
          /\ engine'.pc = "voting" =>
                /\ CurrentRound'.human_votes = CurrentRound.human_votes
                /\ \A n \in Players :
                      DictGetOr(CurrentRound'.human_vote_counts, n, 0) =
                          Cardinality({v \in DictKeys(CurrentRound.human_votes) :
                                          DictGet(CurrentRound.human_votes, v) = n})
    ]_vars

\* the advisory tally was taken with its leaders tied at one vote each, and
\* every player alive at the start of the round is still alive
C13_Witness ==
    /\ engine.pc = "voting"
    /\ session.round_history # <<>>
    /\ CurrentRound.human_vote_counts # <<>>
    /\ \A n \in DictKeys(CurrentRound.human_vote_counts) :
          DictGet(CurrentRound.human_vote_counts, n) = 1
    /\ Cardinality(DictKeys(CurrentRound.human_vote_counts)) >= 2
    /\ AliveNow = AliveInRound(Len(session.round_history))
    /\ CurrentRound.eliminated = "none"

\* the statement recorded for player n in the current round
RecordedStatement(n) == DictGet(CurrentRound.descriptions, n)

\* C14: in the description phase every alive player of the speaking order asked
\* so far has a statement in the round record and, as the last entry, in its
\* own statement list, the fixed fallback statement when its call raised (the
\* call left only the prompt in its conversation); the turn after a raised
\* call is the next player's, and when the phase is over every player of the
\* round's speaking order has a statement and the round goes on to the vote
\* and the elimination.
C14_DescribeFailureRecorded ==
    /\ engine.pc = "describe" =>
          /\ DictKeys(CurrentRound.descriptions) =
                 {engine.order[i] : i \in 1 .. (engine.idx - 1)}
          /\ \A i \in 1 .. (engine.idx - 1) :
                LET n == engine.order[i]
                    own == session.players[n].descriptions
                    c == session.players[n].conversation
                IN /\ own # <<>>
                   /\ own[Len(own)] = RecordedStatement(n)
                   /\ c # <<>>
                   /\ c[Len(c)] = "user" <=> RecordedStatement(n) = FallbackStatement
    /\ (session.round_history # <<>>
          /\ engine.pc \in {"human", "voting", "vote_tasks", "vote_apply", "debate",
                            "revote", "eliminate"}) =>
          /\ DictKeys(CurrentRound.descriptions) = AliveNow
          /\ \A n \in AliveNow :
                LET own == session.players[n].descriptions
                IN own # <<>> /\ own[Len(own)] = RecordedStatement(n)
    /\ \A k \in Rounds :
          (\E n \in DictKeys(session.round_history[k].descriptions) :
              DictGet(session.round_history[k].descriptions, n) = FallbackStatement)
          /\ Eliminated(k)
          => /\ session.round_history[k].eliminated # "none"
             /\ DictKeys(session.round_history[k].descriptions) = AliveInRound(k)
             /\ session.round_history[k].votes # <<>>

\* the first speaker's call raised, the others described after it, and the
\* round went through its vote to an elimination
C14_Witness ==
    /\ engine.pc = "leave"
    /\ Len(session.round_history) = 1
    /\ LET first == session.speaking_order[1]
       IN /\ DictGet(CurrentRound.descriptions, first) = FallbackStatement
          /\ session.players[first].descriptions = <<FallbackStatement>>
          /\ \A n \in Players \ {first} : DictGet(CurrentRound.descriptions, n) = "stmt"
    /\ CurrentRound.eliminated # "none"

\* the line of the history text for the statement recorded for player n
StatementLine(n) == Line("statement", 0, n, RecordedStatement(n))

\* C15: the history text handed to each describing player of the round
\* contains the statement recorded for every player who spoke earlier in the
\* round, the fallback statement of a player whose call raised included, and
\* that already for the very next speaker.
C15_HistoryHasEarlierStatements ==
    \A i \in DOMAIN engine.handed :
        \A j \in 1 .. (i - 1) :
            StatementLine(engine.handed[j][1]) \in SeqSet(engine.handed[i][2])

\* what the code does keep: a speaker whose predecessor's call returned is
\* handed every earlier statement of the round
C15_HistoryAfterSuccess ==
    \A i \in DOMAIN engine.handed :
        (i > 1 /\ RecordedStatement(engine.handed[i - 1][1]) # FallbackStatement) =>
            \A j \in 1 .. (i - 1) :
                StatementLine(engine.handed[j][1]) \in SeqSet(engine.handed[i][2])

\* the fixed speaking order restricted to the players now alive
AliveInOrder ==
    SelectSeq(session.speaking_order, LAMBDA n : session.players[n].is_alive)

\* the players whose conversation grows in the step: the agents called
Asked == {n \in Players : n \in DOMAIN session'.players /\
              Len(session'.players[n].conversation) > Len(session.players[n].conversation)}

\* the describe calls of the round so far went, one after the other, to the
\* first players of the alive speaking order, each after the statements of
\* all its predecessors were recorded
DescribedInOrder ==
    engine.pc = "describe" =>
        /\ engine.order = AliveInOrder
        /\ Len(engine.handed) = engine.idx - 1
        /\ \A i \in DOMAIN engine.handed : engine.handed[i][1] = engine.order[i]
        /\ Len(CurrentRound.descriptions) = engine.idx - 1
        /\ \A i \in DOMAIN CurrentRound.descriptions :
              CurrentRound.descriptions[i][1] = engine.order[i]

\* C16: in every round the describe calls go one at a time to the players of
\* the fixed speaking order that are alive at the start of the round, in that
\* order, each call made when the statements of all earlier speakers of the
\* round are recorded; a step of the description phase calls one agent, the
\* next in that order; no step calls an agent of a player that is not alive,
\* but for the last words asked of the player just eliminated; and the
\* speaking order never changes once the game is initialised.
C16_SequentialAliveOrder ==
    /\ []DescribedInOrder
    /\ [][/\ engine.pc = "describe" =>
                Asked \subseteq {engine.order[i] : i \in {engine.idx} \cap DOMAIN engine.order}
          /\ engine.pc # "leave" => \A n \in Asked : session.players[n].is_alive
          /\ engine.pc = "leave" => Asked \subseteq {engine.eliminated}
          /\ session.current_round >= 1 =>
                session'.speaking_order = session.speaking_order
         ]_vars

\* round 2 or later: a player in the middle of the speaking order is out, and
\* its neighbours in the order have described, the earlier one first
C16_Witness ==
    /\ engine.pc = "describe"
    /\ session.current_round >= 2
    /\ engine.idx > Len(engine.order)
    /\ \E j \in 2 .. (Len(session.speaking_order) - 1) :
          /\ ~session.players[session.speaking_order[j]].is_alive
          /\ session.players[session.speaking_order[j - 1]].is_alive
          /\ session.players[session.speaking_order[j + 1]].is_alive
          /\ \E a, b \in DOMAIN CurrentRound.descriptions :
                /\ a < b
                /\ CurrentRound.descriptions[a][1] = session.speaking_order[j - 1]
                /\ CurrentRound.descriptions[b][1] = session.speaking_order[j + 1]

\* no exception has left run_game since the first round began, every round
\* whose elimination step has run has an eliminated player, a next round
\* begins only when the win rule names no winner, and run_game returns only
\* with the winner the rule names
RoundsResolved ==
    /\ engine.pc = "crashed" => session.current_round = 0 /\ engine.deviations = 0
    /\ \A k \in Rounds : Eliminated(k) => session.round_history[k].eliminated # "none"
    /\ (engine.pc = "round_start" /\ session.current_round >= 1) =>
          WinOf(AliveWithRole(session, "spy"), AliveWithRole(session, "civilian")) = "none"
    /\ engine.pc = "done" =>
          /\ session.winner # "none"
          /\ session.winner =
                 WinOf(AliveWithRole(session, "spy"), AliveWithRole(session, "civilian"))

\* C17: whatever agent calls raise or return invalid targets (within the
\* budget for describe, the votes and the last words; without limit in the
\* debate and the re-vote), no exception leaves run_game once its rounds have
\* begun, no round skips its elimination or its win check, and the game goes
\* on to return a winner.
C17_AgentFailureNotFatal ==
    /\ []RoundsResolved
    /\ (session.current_round >= 1) ~> (engine.pc = "done" /\ session.winner # "none")

\* a game in which a describe call raised has returned its winner
C17_Witness ==
    /\ engine.pc = "done"
    /\ session.winner # "none"
    /\ \E k \in Rounds : \E n \in DictKeys(session.round_history[k].descriptions) :
          DictGet(session.round_history[k].descriptions, n) = FallbackStatement

\* a game in which a debate call raised has returned its winner
C17_DebateWitness ==
    /\ engine.pc = "done"
    /\ session.winner # "none"
    /\ \E i \in DOMAIN engine.debate_contents : engine.debate_contents[i][2] = "failed"

\* the describe call made to player n in round 1, the first call made to it,
\* raised: its prompt has no answer
FirstDescribeRaised(n) ==
    LET c == session.players[n].conversation
    IN Len(c) >= 2 /\ c[2] = "user" /\ (Len(c) = 2 \/ c[3] = "user")

\* C18 (as claimed): a display notification that raises does not abort
\* run_game (no exception leaves it once the rounds have begun, and none
\* comes from a notification) and changes nothing recorded: a player has one
\* statement per round in its own list, and the fixed fallback statement is
\* recorded in round 1 only for a player whose describe call raised.
C18_DisplayFailureHarmless ==
    /\ engine.pc = "crashed" => session.current_round = 0
    /\ ret.op \notin DisplayOps
    /\ \A n \in Players :
          Len(session.players[n].descriptions) <= Len(session.round_history)
    /\ session.round_history # <<>> =>
          \A n \in DictKeys(session.round_history[1].descriptions) :
              DictGet(session.round_history[1].descriptions, n) = FallbackStatement
                  => FirstDescribeRaised(n)

\* C18 (as claimed), the recorded state alone, which a notification raising
\* inside the description round's try (show_thinking, show_description)
\* changes without aborting anything: a player has one statement per round and
\* the fallback statement only after a raised describe call.
C18_StatementsUnchanged ==
    /\ \A n \in Players :
          Len(session.players[n].descriptions) <= Len(session.round_history)
    /\ session.round_history # <<>> =>
          \A n \in DictKeys(session.round_history[1].descriptions) :
              DictGet(session.round_history[1].descriptions, n) = FallbackStatement
                  => FirstDescribeRaised(n)

\* the voters of the primary ledger, in the order their ballots were recorded
LedgerOrder == [i \in DOMAIN CurrentRound.votes |-> CurrentRound.votes[i][1]]

\* the result of voter n's task as the gather returned it
RawOf(n) == DictGet(engine.votes_raw, n)

\* voter n's task returned a candidate other than n
RawValid(n) == RawOf(n) \in AliveNow \ {n}

\* between the start of the tasks and the join nothing is recorded; after the
\* join the i-th result is the i-th speaker's, and the ballots recorded so far
\* are those of the first speakers, in speaking order, each the voter's own
\* reply when that is a valid target and another alive player otherwise, and
\* the last entry of the voter's own vote list
AppliedInOrder ==
    /\ engine.pc = "vote_tasks" => CurrentRound.votes = <<>>
    /\ engine.pc = "vote_apply" =>
          /\ Len(engine.votes_raw) = Len(engine.order)
          /\ \A i \in DOMAIN engine.order : engine.votes_raw[i][1] = engine.order[i]
          /\ LedgerOrder = SubSeq(engine.order, 1, engine.idx - 1)
          /\ \A i \in 1 .. (engine.idx - 1) :
                LET n == engine.order[i]
                    own == session.players[n].votes
                IN /\ DictGet(CurrentRound.votes, n) \in AliveNow \ {n}
                   /\ RawValid(n) => DictGet(CurrentRound.votes, n) = RawOf(n)
                   /\ own # <<>> /\ own[Len(own)] = DictGet(CurrentRound.votes, n)

\* C19: the results of the concurrent vote calls are applied only after all
\* calls have settled, in the speaking order: a settling task changes only its
\* own voter's conversation (the ledger stays empty until the join), the join
\* hands each voter's result over at the voter's place in the speaking order
\* whatever the order in which the tasks settled, and the loop after it
\* records the ballots in speaking order. What is recorded is thus a function
\* of the replies and the fallback draws, not of the completion order.
C19_AppliedInSpeakingOrder ==
    /\ []AppliedInOrder
    /\ [][engine.pc = "vote_tasks" =>
            IF engine'.pc = "vote_tasks"
            THEN \E n \in Players :
                    session' = [session EXCEPT !.players[n].conversation =
                                                   session'.players[n].conversation]
            ELSE /\ session' = session
                 /\ \A i \in DOMAIN engine.completed :
                       \E j \in DOMAIN engine.order :
                          /\ engine.order[j] = engine.completed[i][1]
                          /\ engine'.votes_raw[j] = engine.completed[i]
         ]_vars

\* the tasks settled in an order other than the speaking order, and the
\* ballots of all four voters are in the ledger in speaking order
C19_Witness ==
    /\ engine.pc = "vote_apply"
    /\ engine.idx > Len(engine.order)
    /\ ~engine.in_order
    /\ Len(engine.order) = 4
    /\ LedgerOrder = engine.order
    /\ engine.order # session.player_names

\* after the join and the loop that records the results every alive player
\* has exactly one ballot, for another alive player: its own reply when its
\* call returned a valid target
OneBallotEach ==
    (\/ engine.pc = "vote_apply" /\ engine.idx > Len(engine.order)
     \/ engine.pc \in {"debate", "eliminate"}) =>
        /\ DictKeys(CurrentRound.votes) = AliveNow
        /\ Len(CurrentRound.votes) = Cardinality(AliveNow)
        /\ DictKeys(engine.votes_raw) = AliveNow
        /\ \A n \in AliveNow :
              /\ DictGet(CurrentRound.votes, n) \in AliveNow \ {n}
              /\ RawValid(n) => DictGet(CurrentRound.votes, n) = RawOf(n)

\* C20: in the vote fan-out a task that raises cancels nothing: every task,
\* also after others have raised, settles by itself with its own agent called
\* (one more settled task per step, a voter not settled before, whose
\* conversation grew), the join comes when all have settled, and after the
\* join every alive player has exactly one ballot in the primary ledger, its
\* own reply if that is valid, a fallback otherwise.
C20_FanOutIsolated ==
    /\ []OneBallotEach
    /\ [](engine.pc = "vote_apply" => DictKeys(engine.votes_raw) = SeqSet(engine.order))
    /\ [][(engine.pc = "vote_tasks" /\ engine'.pc = "vote_tasks") =>
            /\ Len(engine'.completed) = Len(engine.completed) + 1
            /\ SubSeq(engine'.completed, 1, Len(engine.completed)) = engine.completed
            /\ LET n == engine'.completed[Len(engine'.completed)][1]
               IN /\ n \in SeqSet(engine.order) \ DictKeys(engine.completed)
                  /\ Asked = {n}
         ]_vars

\* two of the four vote calls raised, the two others returned valid targets
\* other than the scripted one, and all four voters have a ballot, the two
\* who replied their own
C20_Witness ==
    /\ engine.pc = "vote_apply"
    /\ engine.idx > Len(engine.order)
    /\ Cardinality({n \in AliveNow : RawOf(n) = Raise}) = 2
    /\ Cardinality({n \in AliveNow :
           /\ RawValid(n)
           /\ RawOf(n) # DefaultVote(others(engine.candidates, n))
           /\ DictGet(CurrentRound.votes, n) = RawOf(n)}) = 2
    /\ Len(CurrentRound.votes) = 4

\* C21 (as claimed): every vote call has its own hard timeout, so a voting
\* phase in which a call never completes is never blocked: while a call is
\* hung the engine can always take a further step (another task settles, or
\* the timeout gives the hung voter a fallback and the results are joined).
C21_HungVoteTimesOut ==
    (engine.pc = "vote_tasks" /\ engine.hung # {}) => ENABLED <<NextHang>>_vars

\* C22 (as claimed): the recorded round numbers are 1, 2, 3, ... in order,
\* with no gap and no repeat: the i-th RoundRecord carries round number i and
\* the round counter equals the number of records.
C22_RoundNumbersConsecutive ==
    session # NoSession =>
        /\ \A i \in 1..Len(session.round_history) :
               session.round_history[i].round_number = i
        /\ session.current_round = Len(session.round_history)

\* C22, the part that holds: a start_new_round that returns without an error
\* raises the counter by exactly 1 and appends exactly one RoundRecord
\* numbered with the new counter
C22_SuccessfulStartAppendsOne ==
    [][(ret'.op = "start_new_round" /\ ret'.err = "none" /\ calls' = calls + 1) =>
          /\ session'.current_round = session.current_round + 1
          /\ session'.round_history =
                 Append(session.round_history, RoundRecord(session'.current_round))]_vars

\* C23: in a game driven by run_game the elimination fields of a RoundRecord
\* are written at most once, in phase Elimination (run_game enters the phase
\* and calls eliminate_player, which leaves the phase alone, so the phase of
\* the write is the phase after the step), on the current (last) record
\* only and only while both fields are still empty; no step modifies the
\* record of an earlier round.
C23_EliminationWrittenOnce ==
    [][(session # NoSession /\ session' # NoSession /\ session'.sid = session.sid) =>
          \A i \in 1..Len(session.round_history) :
              IF i = Len(session.round_history)
              THEN (\/ session'.round_history[i].eliminated #
                           session.round_history[i].eliminated
                    \/ session'.round_history[i].eliminated_role #
                           session.round_history[i].eliminated_role) =>
                       /\ session'.phase = "elimination"
                       /\ session.round_history[i].eliminated = "none"
                       /\ session.round_history[i].eliminated_role = "none"
              ELSE session'.round_history[i] = session.round_history[i]]_vars

\* the second round's elimination has been recorded and the first round's
\* record still names the first round's player
C23_Witness ==
    /\ session # NoSession
    /\ Len(session.round_history) = 2
    /\ session.round_history[2].eliminated # "none"
    /\ session.round_history[1].eliminated # "none"
    /\ session.round_history[1].eliminated # session.round_history[2].eliminated

\* C23 for the Session Manager on its own: eliminate_player writes the
\* fields in the phase it is called in, whatever that phase is
C23_ManagerGuardsPhase ==
    [][(session # NoSession /\ session' # NoSession /\ session'.sid = session.sid) =>
          \A i \in 1..Len(session.round_history) :
              session'.round_history[i].eliminated # session.round_history[i].eliminated =>
                  /\ session.phase = "elimination"
                  /\ session.round_history[i].eliminated = "none"]_vars

\* C24: in every session made by create_session the speaking order holds
\* every roster name exactly once, there are as many PlayerSessions as the
\* total player count, and no later Session Manager operation (rounds,
\* votes, eliminations, end of session) changes the speaking order.
C24_SpeakingOrderFixed ==
    /\ [](session # NoSession =>
            /\ Len(session.speaking_order) = Len(session.player_names)
            /\ \A n \in SeqSet(session.player_names) :
                   Cardinality({i \in DOMAIN session.speaking_order :
                                    session.speaking_order[i] = n}) = 1
            /\ Cardinality(DOMAIN session.players) = session.total_players)
    /\ [][(session # NoSession /\ session'.sid = session.sid) =>
             session'.speaking_order = session.speaking_order]_vars

\* a round was started, a player eliminated and the session ended, and the
\* speaking order is still the shuffled order given at creation
C24_Witness ==
    /\ session # NoSession
    /\ ret.op = "end_session" /\ ret.err = "none"
    /\ session.round_history # <<>>
    /\ \E n \in DOMAIN session.players : ~session.players[n].is_alive
    /\ session.speaking_order = <<"C", "A", "B">>
    /\ session.speaking_order # session.player_names

\* C25 (as claimed): every change of the phase made by a Session Manager
\* operation is a pair of the phase table; in particular Init is entered
\* from Waiting only and Finished from Elimination only.
C25_PhaseChangesFollowTable ==
    [][(session # NoSession /\ session'.sid = session.sid
            /\ session'.phase # session.phase) =>
          <<session.phase, session'.phase>> \in AllowedTransitions]_vars

\* C26 (as claimed): once the phase is Finished the session is read-only:
\* no later Session Manager call on it changes the round counter, the round
\* records, any alive flag, the winner or the phase.
C26_FinishedIsReadOnly ==
    [][(session # NoSession /\ session.phase = "finished"
            /\ session'.sid = session.sid) =>
          /\ session'.current_round = session.current_round
          /\ session'.round_history = session.round_history
          /\ \A n \in DOMAIN session.players :
                 session'.players[n].is_alive = session.players[n].is_alive
          /\ session'.winner = session.winner
          /\ session'.phase = session.phase]_vars

\* C27 (as claimed): a Session Manager operation that names a player the
\* session does not have (eliminate_player, record_description, record_vote,
\* record_human_vote, get_player_context as used by add_to_player_context)
\* raises an error and leaves the session exactly as it was.
C27_UnknownPlayerRejected ==
    [][(/\ calls' = calls + 1
        /\ ret'.op \in {"eliminate_player", "record_description", "record_vote",
                        "record_human_vote", "add_to_player_context"}
        /\ session # NoSession
        /\ ret'.args[1] \notin DOMAIN session.players) =>
          /\ ret'.err # "none"
          /\ session' = session]_vars

\* C27, the part that holds: eliminate_player and get_player_context look
\* the player up first and raise ValueError with the session untouched
C27_LookupFirstRejected ==
    [][(/\ calls' = calls + 1
        /\ ret'.op \in {"eliminate_player", "add_to_player_context"}
        /\ session # NoSession
        /\ ret'.args[1] \notin DOMAIN session.players) =>
          /\ ret'.err = "ValueError"
          /\ session' = session]_vars

\* ---------------------------------------------------------------------------
\* models.py: ConversationContext, the per-player conversation memory.
\* A content string is the sequence of its characters; each character is
\* written as an ASCII token (the pinyin of a Chinese character, made unique
\* per character), so that len(), slicing and "in" are computed on the
\* characters as Python computes them.
\* ---------------------------------------------------------------------------

\* the number of operations applied to one context
MaxContextCalls == 5

\* "投票" and "描述"
VoteWord == <<"tou", "piao">>

DescribeWord == <<"miao", "shu">>

\* "[我的发言] " and "..."
MyStatementTag == <<"[", "wo", "de", "fa", "yan", "]", " ">>

Ellipsis == <<".", ".", ".">>

\* "[进行了投票]" and "[进行了描述阶段]"
VotedTag == <<"[", "jin", "xing", "le", "tou", "piao", "]">>

DescribedTag == <<"[", "jin", "xing", "le", "miao", "shu", "jie_stage", "duan", "]">>

\* "; "
Separator == <<";", " ">>

\* "[历史记忆摘要] "
SummaryHeader == <<"[", "li", "shi", "ji_record", "yi_memory", "zhai", "yao", "]", " ">>

\* "我已了解之前的情况，请继续。"
Acknowledgement ==
    <<"wo", "yi_already", "le", "jie_untie", "zhi", "qian", "de", "qing_feeling",
      "kuang", "comma", "qing_please", "ji_continue", "xu", "stop">>

\* xs[i] index normalisation of a Python slice bound
PyIndex(i, n) ==
    IF i < 0 THEN (IF i + n < 0 THEN 0 ELSE i + n)
    ELSE (IF i > n THEN n ELSE i)

\* xs[start:stop]
PySlice(xs, start, stop) ==
    LET a == PyIndex(start, Len(xs))
        b == PyIndex(stop, Len(xs))
    IN IF a >= b THEN <<>> ELSE SubSeq(xs, a + 1, b)

\* word in content
Contains(content, word) ==
    \E i \in 1..(Len(content) - Len(word) + 1) :
        SubSeq(content, i, i + Len(word) - 1) = word

Message(role, content) == [role |-> role, content |-> content]

ConversationContext(max_tokens, recent_messages_count) ==
    [messages |-> <<>>, token_count |-> 0, max_tokens |-> max_tokens,
     recent_messages_count |-> recent_messages_count, memory_summary |-> <<>>]

\* the loop of _compress_history 87-95
RECURSIVE summarize(_)
summarize(old_messages) ==
    IF old_messages = <<>> THEN <<>>
    ELSE LET msg == Head(old_messages)
             part == IF msg.role = "assistant"
                     THEN <<MyStatementTag \o PySlice(msg.content, 0, 50) \o Ellipsis>>
                     ELSE IF msg.role = "user" /\ Contains(msg.content, VoteWord)
                     THEN <<VotedTag>>
                     ELSE IF msg.role = "user" /\ Contains(msg.content, DescribeWord)
                     THEN <<DescribedTag>>
                     ELSE <<>>
         IN part \o summarize(Tail(old_messages))

\* "; ".join(parts)
RECURSIVE join(_)
join(parts) ==
    IF parts = <<>> THEN <<>>
    ELSE IF Len(parts) = 1 THEN parts[1]
    ELSE parts[1] \o Separator \o join(Tail(parts))

\* sum(len(m.content) // 3 for m in messages)
RECURSIVE count_tokens(_)
count_tokens(messages) ==
    IF messages = <<>> THEN 0
    ELSE (Len(Head(messages).content) \div 3) + count_tokens(Tail(messages))

\* _compress_history 110-118
summary_pair(memory_summary) ==
    IF memory_summary = <<>> THEN <<>>
    ELSE <<Message("user", SummaryHeader \o memory_summary),
           Message("assistant", Acknowledgement)>>

\* faulty variant: the window kept ends one message before the newest
compress_history_shifted(c) ==
    IF Len(c.messages) <= c.recent_messages_count + 1 THEN c
    ELSE LET has_system == c.messages # <<>> /\ c.messages[1].role = "system"
             old_messages == IF has_system
                             THEN PySlice(c.messages, 1, -c.recent_messages_count)
                             ELSE PySlice(c.messages, 0, -c.recent_messages_count)
             summary_parts == summarize(old_messages)
             memory_summary == IF summary_parts # <<>>
                               THEN join(PySlice(summary_parts, -5, Len(summary_parts)))
                               ELSE c.memory_summary
             recent == PySlice(c.messages, -c.recent_messages_count - 1,
                                Len(c.messages) - 1)
             messages == (IF has_system THEN <<c.messages[1]>> ELSE <<>>)
                             \o summary_pair(memory_summary) \o recent
         IN [c EXCEPT !.memory_summary = memory_summary,
                      !.messages = messages,
                      !.token_count = count_tokens(messages)]

\* faulty variant: the token estimate is not recomputed after the rebuild
compress_history_stale(c) ==
    IF Len(c.messages) <= c.recent_messages_count + 1 THEN c
    ELSE LET has_system == c.messages # <<>> /\ c.messages[1].role = "system"
             old_messages == IF has_system
                             THEN PySlice(c.messages, 1, -c.recent_messages_count)
                             ELSE PySlice(c.messages, 0, -c.recent_messages_count)
             summary_parts == summarize(old_messages)
             memory_summary == IF summary_parts # <<>>
                               THEN join(PySlice(summary_parts, -5, Len(summary_parts)))
                               ELSE c.memory_summary
             recent == PySlice(c.messages, -c.recent_messages_count, Len(c.messages))
             messages == (IF has_system THEN <<c.messages[1]>> ELSE <<>>)
                             \o summary_pair(memory_summary) \o recent
         IN [c EXCEPT !.memory_summary = memory_summary,
                      !.messages = messages]

\* _compress_history 69-123
compress_history(c) ==
    IF Len(c.messages) <= c.recent_messages_count + 1 THEN c
    ELSE LET has_system == c.messages # <<>> /\ c.messages[1].role = "system"
             old_messages == IF has_system
                             THEN PySlice(c.messages, 1, -c.recent_messages_count)
                             ELSE PySlice(c.messages, 0, -c.recent_messages_count)
             summary_parts == summarize(old_messages)
             memory_summary == IF summary_parts # <<>>
                               THEN join(PySlice(summary_parts, -5, Len(summary_parts)))
                               ELSE c.memory_summary
             recent == PySlice(c.messages, -c.recent_messages_count, Len(c.messages))
             messages == (IF has_system THEN <<c.messages[1]>> ELSE <<>>)
                             \o summary_pair(memory_summary) \o recent
         IN [c EXCEPT !.memory_summary = memory_summary,
                      !.messages = messages,
                      !.token_count = count_tokens(messages)]

\* token_count > max_tokens * 0.8
over_threshold(c) == c.token_count * 10 > c.max_tokens * 8

manage_memory(c) == IF over_threshold(c) THEN compress_history(c) ELSE c

\* ConversationContext.add_message with its content
context_add_message(c, role, content) ==
    manage_memory([c EXCEPT !.messages = Append(@, Message(role, content)),
                            !.token_count = @ + (Len(content) \div 3)])

\* the configurations and contents explored
RecentCounts == {0, 1, 2}

TokenBudgets == {1, 4}

SystemText == <<"s", "s", "s">>

PlainText == <<"x", "x", "x", "x", "x", "x">>

VoteText == <<"qing_please", "tou", "piao">>

DescribeText == <<"qing_please", "miao", "shu">>

ContextInputs ==
    {<<"assistant", PlainText>>, <<"user", PlainText>>,
     <<"user", VoteText>>, <<"user", DescribeText>>}

\* models.py 167-169: the context belongs to one PlayerSession
MemoryPlayer == "A"

MemorySession(c) ==
    [GameSession(1, <<MemoryPlayer>>, 1) EXCEPT !.players[MemoryPlayer].conversation = c]

Context == session.players[MemoryPlayer].conversation

\* a fresh context, or one that _init_player_context gave its system message
InitMemory ==
    /\ ret = NoCall
    /\ calls = 0
    /\ engine = EngineIdle
    /\ \E max_tokens \in TokenBudgets, recent_messages_count \in RecentCounts :
       \E c \in {ConversationContext(max_tokens, recent_messages_count)} :
          \/ session = MemorySession(c)
          \/ session = MemorySession(context_add_message(c, "system", SystemText))

ContextAddMessage ==
    /\ calls < MaxContextCalls
    /\ calls' = calls + 1
    /\ UNCHANGED engine
    /\ \E input \in ContextInputs :
       \E c \in {[Context EXCEPT !.messages = Append(@, Message(input[1], input[2])),
                                 !.token_count = @ + (Len(input[2]) \div 3)]} :
          /\ session' = MemorySession(context_add_message(Context, input[1], input[2]))
          /\ ret' = Call("add_message", input,
                         "none", IF over_threshold(c) THEN "pass" ELSE "none")

\* a compression pass run on the context as it is
ContextCompress ==
    /\ calls < MaxContextCalls
    /\ calls' = calls + 1
    /\ UNCHANGED engine
    /\ session' = MemorySession(compress_history(Context))
    /\ ret' = Call("_compress_history", <<>>, "none", "pass")

NextMemory ==
    \/ ContextAddMessage
    \/ ContextCompress

SpecMemory == InitMemory /\ [][NextMemory]_vars

\* ---------------------------------------------------------------------------
\* Properties of the conversation memory
\* ---------------------------------------------------------------------------

HasSystem(c) == c.messages # <<>> /\ c.messages[1].role = "system"

\* the synthetic summary pair stands right after the system message, if any
SummaryInjected(c) ==
    LET k == IF HasSystem(c) THEN 1 ELSE 0
    IN /\ Len(c.messages) >= k + 2
       /\ c.messages[k + 1].role = "user"
       /\ PySlice(c.messages[k + 1].content, 0, Len(SummaryHeader)) = SummaryHeader
       /\ c.messages[k + 2] = Message("assistant", Acknowledgement)

MessageBound(c) ==
    c.recent_messages_count + (IF HasSystem(c) THEN 1 ELSE 0)
                            + (IF SummaryInjected(c) THEN 2 ELSE 0)

\* the step just taken ran a compression pass
AfterPass == ret.val = "pass"

\* C28 (as claimed): after every compression pass, whatever the contents and
\* the configuration of the context, the number of messages is at most
\* recent_messages_count, plus 1 if the first message is a system message,
\* plus 2 if the summary pair was injected.
C28_MessageCountBounded ==
    AfterPass => Len(Context.messages) <= MessageBound(Context)

\* C28, the part that holds: with a leading system message and a recent
\* window of at least one message the bound is kept by every pass
C28_BoundedWithSystemAndWindow ==
    (AfterPass /\ HasSystem(Context) /\ Context.recent_messages_count >= 1) =>
        Len(Context.messages) <= MessageBound(Context)

\* C29 (as claimed): compression is idempotent: a pass run on a context that
\* a pass has just left, with no message added in between, changes neither
\* the messages nor memory_summary nor the token estimate.
C29_CompressionIdempotent ==
    [][(AfterPass /\ ret'.op = "_compress_history" /\ calls' = calls + 1) =>
          /\ Context'.messages = Context.messages
          /\ Context'.memory_summary = Context.memory_summary
          /\ Context'.token_count = Context.token_count]_vars

\* C29, the part that holds: a pass on a context that carries no summary is
\* repeated without effect when the window is at least one message
C29_IdempotentWithoutSummary ==
    [][(/\ AfterPass /\ ret'.op = "_compress_history" /\ calls' = calls + 1
        /\ Context.memory_summary = <<>>
        /\ Context.recent_messages_count >= 1
        /\ HasSystem(Context)) =>
          Context' = Context]_vars

\* the last n elements of xs, all of xs when it has fewer
LastN(xs, n) == IF n >= Len(xs) THEN xs ELSE SubSeq(xs, Len(xs) - n + 1, Len(xs))

\* the messages a pass started from: add_message appends before the pass
BeforePass ==
    IF ret'.op = "add_message"
    THEN Append(Context.messages, Message(ret'.args[1], ret'.args[2]))
    ELSE Context.messages

\* C30: a leading system message stays the first message, unchanged, through
\* every add_message and every compression pass; and the most recent
\* recent_messages_count messages that existed before a pass are the last
\* messages after it, verbatim and in the same order.
C30_SystemAndWindowPreserved ==
    [][/\ HasSystem(Context) =>
              /\ Context'.messages # <<>>
              /\ Context'.messages[1] = Context.messages[1]
       /\ (ret'.val = "pass" /\ calls' = calls + 1) =>
              LastN(Context'.messages, Context.recent_messages_count)
                  = LastN(BeforePass, Context.recent_messages_count)]_vars

\* a pass has rebuilt a context with a system message: the summary pair was
\* injected and the two most recent messages follow it
C30_Witness ==
    /\ AfterPass
    /\ HasSystem(Context)
    /\ SummaryInjected(Context)
    /\ Context.recent_messages_count = 2
    /\ Len(Context.messages) = 5
    /\ Context.messages[4] # Context.messages[5]

\* C31 (as claimed): after every add_message the token estimate of the
\* context is at most max_tokens, whatever the lengths of the messages.
C31_EstimateWithinBudget ==
    ret.op = "add_message" => Context.token_count <= Context.max_tokens

\* the session with every conversation context taken from another session
WithConversationsOf(s, from) ==
    [s EXCEPT !.players = [n \in DOMAIN s.players |->
                              [s.players[n] EXCEPT !.conversation =
                                                      from.players[n].conversation]]]

clear(c) == [c EXCEPT !.messages = <<>>, !.token_count = 0, !.memory_summary = <<>>]

ContextClear ==
    /\ calls < MaxContextCalls
    /\ calls' = calls + 1
    /\ UNCHANGED engine
    /\ session' = MemorySession(clear(Context))
    /\ ret' = Call("clear", <<>>, "none", "none")

NextMemoryClear ==
    \/ ContextAddMessage
    \/ ContextCompress
    \/ ContextClear

SpecMemoryClear == InitMemory /\ [][NextMemoryClear]_vars

\* the estimate computed from a message sequence: floor(len(content) / 3),
\* summed over the messages
EstimateOf(messages) ==
    LET RECURSIVE upto(_)
        upto(i) == IF i = 0 THEN 0
                   ELSE upto(i - 1) + (Len(messages[i].content) \div 3)
    IN upto(Len(messages))

\* C33: in every state of a ConversationContext reached by add_message,
\* compression passes and clear, the stored token estimate equals the sum
\* over the live messages of floor(content length / 3).
C33_EstimateMatchesMessages ==
    Context.token_count = EstimateOf(Context.messages)

\* a pass has rebuilt a context without a system message: the estimate counts
\* the two synthetic messages (5 and 4) and the one recent message
C33_Witness ==
    /\ AfterPass
    /\ SummaryInjected(Context)
    /\ ~HasSystem(Context)
    /\ Context.recent_messages_count = 1
    /\ Len(Context.messages) = 3
    /\ Context.token_count = 5 + 4 + (Len(Context.messages[3].content) \div 3)

\* C34 (as claimed): after any sequence of Session Manager calls the round
\* counter equals the number of RoundRecords, and a start_new_round that
\* fails with the invalid-transition error leaves the counter and the round
\* list as they were.
C34_CounterMatchesRecords ==
    /\ [](session # NoSession => session.current_round = Len(session.round_history))
    /\ [][(ret'.op = "start_new_round" /\ ret'.err = "ValueError"
               /\ calls' = calls + 1) =>
             /\ session'.current_round = session.current_round
             /\ session'.round_history = session.round_history]_vars

\* the names holding the maximum count of a recorded tally
TallyLeaders(vote_counts) ==
    {n \in DictKeys(vote_counts) :
        \A m \in DictKeys(vote_counts) : DictGet(vote_counts, m) <= DictGet(vote_counts, n)}

\* C35: in every round of run_game the player recorded as eliminated holds
\* the maximum count of that round's recorded primary tally, also when the
\* debate re-vote or the random fallback decided; and no step of the debate
\* or of the re-vote changes the round's primary ledger or its tally.
C35_EliminatedLeadsPrimaryTally ==
    /\ [](\A k \in Rounds :
             session.round_history[k].eliminated # "none" =>
                 session.round_history[k].eliminated
                     \in TallyLeaders(session.round_history[k].vote_counts))
    /\ [][engine.pc \in {"debate", "revote"} =>
             /\ session'.round_history[Len(session.round_history)].votes
                    = CurrentRound.votes
             /\ session'.round_history[Len(session.round_history)].vote_counts
                    = CurrentRound.vote_counts]_vars

\* a round decided by the random fallback: the re-vote tied again, and the
\* player eliminated shares the maximum of the primary tally with another
C35_Witness ==
    /\ engine.pc \in {"leave", "check"}
    /\ engine.tie_candidates # <<>>
    /\ Cardinality(RevoteLeaders) >= 2
    /\ CurrentRound.eliminated = engine.eliminated
    /\ Cardinality(TallyLeaders(CurrentRound.vote_counts)) >= 2
    /\ CurrentRound.eliminated \in TallyLeaders(CurrentRound.vote_counts)
    /\ \E n \in DictKeys(engine.revote_counts) : DictGet(engine.revote_counts, n) > 0

\* C36: with the roster of four and any minority count the code accepts,
\* every round of run_game begins with at least 3 alive players, so every
\* voter has a valid target and the primary tally is never computed over an
\* empty ledger; there are at most (roster size - 2) rounds, and at least 2
\* players are alive when the game is finished.
C36_RoundsBeginWithThree ==
    /\ \A k \in Rounds : Cardinality(AliveInRound(k)) >= 3
    /\ Len(session.round_history) <= Len(Roster) - 2
    /\ engine.pc \in {"vote_tasks", "vote_apply"} =>
          \A n \in SeqSet(engine.order) : others(engine.candidates, n) # <<>>
    /\ \A k \in Rounds :
          session.round_history[k].eliminated # "none" =>
              /\ session.round_history[k].votes # <<>>
              /\ session.round_history[k].vote_counts # <<>>
    /\ engine.pc = "done" =>
          /\ session.phase = "finished"
          /\ Cardinality(AliveNow) >= 2

\* the longest game of the roster of four: two rounds, the second begun with
\* three alive players, finished with two alive
C36_Witness ==
    /\ engine.pc = "done"
    /\ Len(session.round_history) = Len(Roster) - 2
    /\ Cardinality(AliveInRound(2)) = 3
    /\ Cardinality(AliveNow) = 2


\* C37: in every state of a game driven by run_game the winner is set exactly
\* when the phase is Finished; the step that ends the game starts in the phase
\* Elimination with the round's player eliminated; the stored winner is the win
\* rule's value on the alive counts of the final state; and a further round is
\* started after an elimination only where the win rule names no winner.
C37_WinnerIffFinished ==
    /\ [](session # NoSession =>
            /\ (session.winner # "none") <=> (session.phase = "finished")
            /\ session.phase = "finished" =>
                 session.winner = WinOf(AliveWithRole(session, "spy"),
                                        AliveWithRole(session, "civilian")))
    /\ [][/\ (session # NoSession /\ session'.phase = "finished"
                 /\ session.phase # "finished")
             => /\ session.phase = "elimination"
                /\ CurrentRound.eliminated # "none"
                /\ session'.players = session.players
          /\ (session # NoSession /\ session.round_history # <<>>
                 /\ Len(session'.round_history) > Len(session.round_history))
             => /\ CurrentRound.eliminated # "none"
                /\ WinOf(AliveWithRole(session, "spy"),
                         AliveWithRole(session, "civilian")) = "none"]_vars

\* a game has ended after the elimination of its second round with the
\* civilians winning
C37_Witness ==
    /\ engine.pc = "done"
    /\ session.phase = "finished"
    /\ session.winner = "civilian"
    /\ Len(session.round_history) = 2
    /\ CurrentRound.eliminated # "none"

\* round k's description phase has run to its end
DescriptionDone(k) ==
    \/ k < Len(session.round_history)
    \/ engine.pc \in {"human", "voting", "vote_tasks", "vote_apply", "debate",
                      "revote", "eliminate", "leave", "check", "done",
                      "round_start"}
    \/ engine.pc = "describe" /\ engine.idx > Len(engine.order)

\* the speakers of the running description phase whose turn is over
SpokenSoFar ==
    IF engine.pc = "describe"
    THEN {engine.order[i] : i \in 1 .. (engine.idx - 1)}
    ELSE {}

\* C38: in every completed description phase each player alive at the start of
\* the round has exactly one statement in the round record, and its own
\* statement list has grown by exactly one entry, the text in the round
\* record, whether the describe call or a notification raised or not: the
\* round record has statements of exactly the round's players, a player's own
\* list has one entry for each phase it took part in (as long as run_game has
\* not been left by an exception), and its k-th entry is round k's recorded
\* statement.
C38_OneStatementPerPlayer ==
    /\ \A k \in Rounds :
          DescriptionDone(k) =>
              /\ DictKeys(session.round_history[k].descriptions) = AliveInRound(k)
              /\ \A n \in AliveInRound(k) :
                    LET own == session.players[n].descriptions
                    IN /\ Len(own) >= k
                       /\ own[k] = DictGet(session.round_history[k].descriptions, n)
    /\ engine.pc # "crashed" =>
          \A n \in Players :
              Len(session.players[n].descriptions) =
                  Cardinality({k \in Rounds :
                      /\ n \in AliveInRound(k)
                      /\ \/ DescriptionDone(k)
                         \/ k = Len(session.round_history) /\ n \in SpokenSoFar})

\* the step records a statement: some player's own statement list changes
RecordsStatement ==
    \E n \in Players :
        session'.players[n].descriptions # session.players[n].descriptions

\* the step records a ballot of the primary track
RecordsBallot ==
    \E n \in Players : session'.players[n].votes # session.players[n].votes

\* the step records a ballot of the advisory track in the running round
RecordsAdvisoryBallot ==
    /\ session.round_history # <<>>
    /\ Len(session'.round_history) = Len(session.round_history)
    /\ session'.round_history[Len(session.round_history)].human_votes
           # CurrentRound.human_votes

\* the step eliminates a player
EliminatesPlayer ==
    \E n \in Players : session'.players[n].is_alive # session.players[n].is_alive

\* the phases of a round in their order; the elimination step of run_game is
\* transition_phase(ELIMINATION) followed at once by eliminate_player
RoundPhaseOrder ==
    {<<"init", "description">>, <<"description", "voting">>,
     <<"voting", "elimination">>, <<"elimination", "description">>,
     <<"elimination", "finished">>}

\* the claim of C39 without its advisory track
MatchingPhaseExceptAdvisory ==
    /\ RecordsStatement =>
          session.phase = "description" /\ session'.phase = "description"
    /\ RecordsBallot => session.phase = "voting" /\ session'.phase = "voting"
    /\ EliminatesPlayer => session'.phase = "elimination"
    /\ session'.phase # session.phase =>
          <<session.phase, session'.phase>> \in RoundPhaseOrder

\* C39: during run_game every state change happens in its matching phase:
\* statements are recorded only while the phase is Description, ballots of
\* the primary and of the advisory track only while the phase is Voting,
\* players are eliminated only in the phase Elimination, and the phases of a
\* round follow each other in the order Description, Voting, Elimination.
C39_ChangesInMatchingPhase ==
    [][(session # NoSession /\ session'.sid = session.sid /\ session.phase # "waiting")
        => /\ MatchingPhaseExceptAdvisory
           /\ RecordsAdvisoryBallot =>
                 session.phase = "voting" /\ session'.phase = "voting"]_vars

\* what run_game does: the claim holds for statements, primary ballots,
\* eliminations and the order of the phases, and every advisory ballot is
\* recorded while the phase is still Description
C39_AdvisoryInDescription ==
    [][(session # NoSession /\ session'.sid = session.sid /\ session.phase # "waiting")
        => /\ MatchingPhaseExceptAdvisory
           /\ RecordsAdvisoryBallot =>
                 session.phase = "description" /\ session'.phase = "description"]_vars

----------------------------------------------------------------------------
(* server.py: the web server.  POST /start creates a game task; every game  *)
(* task sends its events through WebGameDisplay._send to the one           *)
(* broadcast_queue; message_broadcaster takes them off the queue and sends *)
(* them to the connected websockets.  The server's state is kept in the    *)
(* variable engine; calls counts the /start requests.                      *)

\* the /start requests explored
MaxStarts == 2

\* the websocket clients explored
Clients == {"ws1"}

\* the events one game sends, grouped by the awaits between them (a group is
\* sent without the task giving up control): server.py 149 and run_game up to
\* the first describe call; after a describe call; after the vote calls;
\* after the leave message up to server.py 199
GameScript ==
    << <<"game_start", "round_start", "player_speaking">>,
       <<"description">>,
       <<"vote">>,
       <<"elimination", "game_end">> >>

\* the events whose payload holds a Role (Role is a plain Enum, models.py
\* 11-14): json.dumps raises TypeError on them
RolePayload == {"game_start", "elimination", "game_end"}

\* WebGameDisplay._send, called for each event of a group in turn:
\* json.dumps, then put_nowait; an exception of either is swallowed and the
\* event is lost.  The field game is not part of the message: it only tells
\* the games' events apart in the properties
RECURSIVE send(_, _, _)
send(queue, game, types) ==
    IF types = <<>> THEN queue
    ELSE send(IF Head(types) \in RolePayload THEN queue
              ELSE Append(queue, [game |-> game, type |-> Head(types)]),
              game, Tail(types))

\* the game tasks that have not returned
RunningTasks == {g \in DOMAIN engine.tasks : engine.tasks[g].pc <= Len(GameScript)}

\* the module's globals, the connection manager, and what the clients got
InitServer ==
    /\ session = NoSession
    /\ ret = NoCall
    /\ calls = 0
    /\ engine = [pc |-> "serving",
                 game_background_task |-> 0,
                 tasks |-> <<>>,
                 broadcast_queue |-> <<>>,
                 active_connections |-> <<>>,
                 received |-> [c \in Clients |-> <<>>]]

\* start_game: no check of game_background_task; the new task replaces it
StartGame ==
    /\ calls < MaxStarts
    /\ calls' = calls + 1
    /\ ret' = Call("start_game", <<>>, "none", "started")
    /\ engine' = [engine EXCEPT
           !.tasks = Append(@, [pc |-> 1, emitted |-> <<>>]),
           !.game_background_task = Len(engine.tasks) + 1]
    /\ UNCHANGED session

\* run_game_logic: the task of game g runs up to its next await
GameTaskStep ==
    \E g \in RunningTasks :
       LET task == engine.tasks[g]
           types == GameScript[task.pc]
       IN /\ engine' = [engine EXCEPT
                 !.tasks[g].pc = @ + 1,
                 !.tasks[g].emitted = send(@, g, types),
                 !.broadcast_queue = send(@, g, types)]
          /\ UNCHANGED <<session, ret, calls>>

\* run_game_logic 124-126 and 202-206: too few players configured, or an
\* exception; show_error and the task returns
GameTaskFails ==
    \E g \in RunningTasks :
       /\ engine' = [engine EXCEPT
              !.tasks[g].pc = Len(GameScript) + 1,
              !.tasks[g].emitted = send(@, g, <<"error">>),
              !.broadcast_queue = send(@, g, <<"error">>)]
       /\ UNCHANGED <<session, ret, calls>>

\* websocket_endpoint 72
WebSocketConnect ==
    \E c \in Clients :
       /\ c \notin SeqSet(engine.active_connections)
       /\ engine' = [engine EXCEPT !.active_connections = Append(@, c)]
       /\ UNCHANGED <<session, ret, calls>>

\* websocket_endpoint 77-78
WebSocketDisconnect ==
    \E c \in SeqSet(engine.active_connections) :
       /\ engine' = [engine EXCEPT
              !.active_connections = SelectSeq(@, LAMBDA x : x # c)]
       /\ UNCHANGED <<session, ret, calls>>

\* message_broadcaster: one turn of the loop, the oldest message to every
\* connection
MessageBroadcaster ==
    /\ engine.broadcast_queue # <<>>
    /\ LET message == Head(engine.broadcast_queue)
       IN engine' = [engine EXCEPT
              !.broadcast_queue = Tail(@),
              !.received = [c \in Clients |->
                  IF c \in SeqSet(engine.active_connections)
                  THEN Append(@[c], message) ELSE @[c]]]
    /\ UNCHANGED <<session, ret, calls>>

NextServer ==
    \/ StartGame
    \/ GameTaskStep
    \/ GameTaskFails
    \/ WebSocketConnect
    \/ WebSocketDisconnect
    \/ MessageBroadcaster

SpecServer == InitServer /\ [][NextServer]_vars

\* the games that have events in a sequence of messages
GamesOf(messages) == {messages[i].game : i \in DOMAIN messages}

\* the events of game g in a sequence of messages
EventsOf(messages, g) == SelectSeq(messages, LAMBDA m : m.game = g)

\* a is b with some elements left out
RECURSIVE IsSubsequence(_, _)
IsSubsequence(a, b) ==
    IF a = <<>> THEN TRUE
    ELSE IF b = <<>> THEN FALSE
    ELSE IF Head(a) = Head(b) THEN IsSubsequence(Tail(a), Tail(b))
    ELSE IsSubsequence(a, Tail(b))

\* C40: at most one game runs at a time in the web server: a /start request
\* received while an earlier game task has not returned starts no second
\* game, so the events on the broadcast queue are those of one game, and the
\* clients get them in the order that game sent them.
C40_OneGameAtATime ==
    /\ Cardinality(RunningTasks) <= 1
    /\ Cardinality(GamesOf(engine.broadcast_queue)) <= 1
    /\ \A c \in Clients : \A g \in DOMAIN engine.tasks :
          IsSubsequence(EventsOf(engine.received[c], g), engine.tasks[g].emitted)

\* what the server keeps: the queue is first-in first-out and has one
\* consumer, so each game's events reach a client in the order the game sent
\* them, whatever other games' events lie between them
C40_OrderWithinGame ==
    \A g \in DOMAIN engine.tasks :
        /\ \A c \in Clients :
              IsSubsequence(EventsOf(engine.received[c], g), engine.tasks[g].emitted)
        /\ LET q == EventsOf(engine.broadcast_queue, g)
               e == engine.tasks[g].emitted
           IN /\ Len(q) <= Len(e)
              /\ q = SubSeq(e, Len(e) - Len(q) + 1, Len(e))

\* a client has got an event of the second game between two of the first
C40_Interleaved ==
    \E c \in Clients :
        \E i, j, k \in DOMAIN engine.received[c] :
            /\ i < j /\ j < k
            /\ engine.received[c][i].game = 1
            /\ engine.received[c][j].game = 2
            /\ engine.received[c][k].game = 1
====
